---------------------------- MODULE Spec2Model ----------------------------
(***************************************************************************)
(* Resilience, caching and authorization core of the EODHD MCP server:     *)
(* app/api_client.py (rate limiter, retrying request engine),              *)
(* app/cache.py (TTLCache), app/redis_cache.py (RedisCache),               *)
(* app/oauth.py (OAuthValidator), app/auth.py (AuthMiddleware) and         *)
(* app/batch.py (BatchProcessor).                                          *)
(*                                                                         *)
(* Each component has its own specification over the shared variables:     *)
(*   SpecReq    one call of make_request against an arbitrary upstream     *)
(*   SpecRL     concurrent callers of _rate_limit                          *)
(*   SpecCache  a TTLCache under set/get/delete/clear/cleanup and time     *)
(*   SpecLRU    a TTLCache under set/get with the history of uses          *)
(*   SpecRedis  a RedisCache whose remote store fails and recovers         *)
(*   SpecAuth   AuthMiddleware.authenticate with an OAuthValidator         *)
(*   SpecScope  check_scope, has_scope and has_any_scope on one result     *)
(*   SpecBatch  BatchProcessor.process calls with arbitrary fetch outcomes *)
(*   SpecSem    the same, every fetch finishing (fair scheduling)          *)
(*   SpecThreads  two threads on one TTLCache                              *)
(*   SpecClient one make_request or make_post_request call on a url        *)
(*   SpecDeco   sequential calls of a function wrapped by cached           *)
(*   SpecKeys   the cache keys the two cached decorators build for a call  *)
(*   SpecReqFair  SpecReq with every await of the request returning        *)
(*   SpecPair   a TTLCache and a disconnected RedisCache given the same    *)
(*              calls                                                      *)
(* Time is counted in whole ticks of time.time(); each component states    *)
(* the length of its tick.                                                 *)
(***************************************************************************)
EXTENDS Integers, Sequences, FiniteSets, TLC

VARIABLES
    \* ---- make_request (app/api_client.py)
    rq_pc,              \* "loop" | "done": position of the one request
    retries,            \* the retries argument
    attempt,            \* the for-loop variable
    httpCalls,          \* number of client.get calls dispatched
    outcomes,           \* what the upstream answered, attempt by attempt
    last_error,         \* last_error: None or the exception kept
    result,             \* what make_request gave back to its caller
    sleeps,             \* every asyncio.sleep of the request, in order
    \* ---- _rate_limit (app/api_client.py)
    now,                \* time.time()
    last_request_time,  \* _last_request_time
    rl_pc,              \* per task: "idle" | "sleeping" | "done"
    rl_wake,            \* per task: when its asyncio.sleep is over
    permits,            \* times at which _rate_limit returned, in order
    \* ---- TTLCache (app/cache.py)
    cache,              \* _cache: the OrderedDict, oldest entry first
    hits,               \* _hits
    misses,             \* _misses
    lastOp,             \* the operation last completed and what it returned
    uses,               \* history: the keys used by set and by get hits
    \* ---- RedisCache (app/redis_cache.py)
    r_connected,        \* self._connected
    r_client,           \* self._client is not None
    remote,             \* the contents of the Redis server, by full key
    fallback,           \* self._fallback_cache, by full key
    rLast,              \* the operation last completed and what it returned
    pending,            \* history: the last set whose remote call failed
    \* ---- OAuthValidator (app/oauth.py), AuthMiddleware (app/auth.py)
    introspection_url,  \* self.introspection_url is configured
    env_key,            \* EODHD_API_KEY is set
    allow_legacy_api_key,   \* self.allow_legacy_api_key
    allow_env_api_key,      \* self.allow_env_api_key
    vcache,             \* OAuthValidator._cache, by the hash of the token
    aLast,              \* the authenticate call last completed
    \* ---- AuthMiddleware.check_scope (app/auth.py)
    cs_auth,            \* the AuthResult under check
    cs_last,            \* the check_scope call last completed
    \* ---- BatchProcessor (app/batch.py)
    max_concurrent,     \* self.max_concurrent
    sem_value,          \* free permits of self._semaphore
    b_pc,               \* per process call: "idle" | "gather" | "done" | "raised"
    b_items,            \* per process call: its items argument
    b_task,             \* per process call: its _fetch_with_semaphore tasks
    b_result,           \* per process call: the dict it returned
    \* ---- threads on one TTLCache (app/cache.py)
    lock,               \* self._lock: None or the thread that holds it
    th,                 \* per thread: its call, position and locals
    gets,               \* history: get calls started, and counted since clear
    \* ---- URLs of make_request and make_post_request (app/api_client.py)
    url,                \* the url argument, as a sequence of tokens
    sent,               \* the URLs handed to client.get / client.post, in order
    verb,               \* "none" | "GET" | "POST": which function was called
    rl_calls,           \* number of _rate_limit calls of the request
    \* ---- a function wrapped by cached (app/cache.py)
    d_fn,               \* the decoration: async or sync function, ttl argument
    d_pc,               \* "idle" | "calling": the wrapper awaits the function
    d_key,              \* cache_key of the call in progress
    d_last,             \* the last wrapper call that returned
    d_prev,             \* history: the last result stored for Tracked, its expiry
    \* ---- cache keys of the two cached decorators (cache.py, redis_cache.py)
    kc,                 \* a call: key_prefix, function name, args, kwargs as written
    kk,                 \* per decorator: the cache_key built, kwargs as written / reversed
    \* ---- a TTLCache and a disconnected RedisCache given the same calls
    p_set               \* history: the last set call: its key, ttl argument, time

vars == <<rq_pc, retries, attempt, httpCalls, outcomes, last_error, result,
          sleeps, now, last_request_time, rl_pc, rl_wake, permits,
          cache, hits, misses, lastOp, uses,
          r_connected, r_client, remote, fallback, rLast, pending,
          introspection_url, env_key, allow_legacy_api_key, allow_env_api_key,
          vcache, aLast, cs_auth, cs_last,
          max_concurrent, sem_value, b_pc, b_items, b_task, b_result,
          lock, th, gets, url, sent, verb, rl_calls,
          d_fn, d_pc, d_key, d_last, d_prev, kc, kk, p_set>>

reqVars == <<rq_pc, retries, attempt, httpCalls, outcomes, last_error,
             result, sleeps>>
rlVars == <<last_request_time, rl_pc, rl_wake, permits>>
cacheVars == <<cache, hits, misses, lastOp, uses>>
redisVars == <<r_connected, r_client, remote, fallback, rLast, pending>>
authVars == <<introspection_url, env_key, allow_legacy_api_key, allow_env_api_key,
              vcache, aLast>>

scopeVars == <<cs_auth, cs_last>>
batchVars == <<max_concurrent, sem_value, b_pc, b_items, b_task, b_result>>
threadVars == <<lock, th, gets>>
clientVars == <<url, sent, verb, rl_calls>>
decoVars == <<d_fn, d_pc, d_key, d_last, d_prev>>
keyVars == <<kc, kk>>
pairVars == <<p_set>>
moreVars == <<clientVars, decoVars, keyVars, pairVars>>
restVars == <<scopeVars, batchVars, threadVars, moreVars>>

None == "None"

Min(a, b) == IF a < b THEN a ELSE b

RECURSIVE Pow2(_)
Pow2(n) == IF n = 0 THEN 1 ELSE 2 * Pow2(n - 1)

(***************************************************************************)
(* Bounds of the model.                                                    *)
(***************************************************************************)
MaxRetriesArg == 3      \* the retries argument ranges over 0..MaxRetriesArg
MaxTime == 6            \* the clock stops advancing here

(***************************************************************************)
(* make_request                                                            *)
(***************************************************************************)
MAX_RETRIES == 3
RETRY_DELAY_BASE == 1
RETRY_DELAY_MAX == 10
DefaultRetryAfter == 60
HeaderSeconds == 2      \* the value of a numeric Retry-After header
NoError == [class |-> None, attempt |-> -1, status |-> 0]
NoResult == [tag |-> "none"]

\* What one attempt can meet: an HTTP response, or an exception raised by
\* the rate limiter, the client or the transport.
Responses ==
    {[kind |-> "response", status |-> 200, ctype |-> c, body |-> b, retry_after |-> "absent"] :
        c \in {"application/json", "text/csv", "other"}, b \in {"json", "text"}}
    \cup {[kind |-> "response", status |-> s, ctype |-> "other", body |-> "text", retry_after |-> "absent"] :
        s \in {302, 400, 404, 499, 500, 503}}
    \cup {[kind |-> "response", status |-> 429, ctype |-> "other", body |-> "text", retry_after |-> ra] :
        ra \in {"absent", "seconds", "http-date"}}

Raised ==
    {[kind |-> "exception", class |-> c] :
        c \in {"TimeoutException", "ConnectError", "InvalidURL"}}

Outcomes == Responses \cup Raised

\* The exception classes that matter and their base classes (httpx, builtins).
Bases(c) ==
    CASE c = "TimeoutException" -> {"TimeoutException", "TransportError", "RequestError", "HTTPError", "Exception"}
      [] c = "ConnectError"     -> {"ConnectError", "TransportError", "RequestError", "HTTPError", "Exception"}
      [] c = "HTTPStatusError"  -> {"HTTPStatusError", "HTTPError", "Exception"}
      [] c = "InvalidURL"       -> {"InvalidURL", "Exception"}
      [] c = "ValueError"       -> {"ValueError", "Exception"}
      [] OTHER                  -> {c}

\* int(response.headers.get("Retry-After", 60))
RetryAfter(o) ==
    IF o.retry_after = "absent" THEN DefaultRetryAfter ELSE HeaderSeconds

\* What the body of the try block raises for an outcome; None when it
\* returns or continues instead.
ExceptionOf(o) ==
    IF o.kind = "exception" THEN o.class
    ELSE IF o.status = 429
         THEN (IF o.retry_after = "http-date" THEN "ValueError" ELSE None)
    ELSE IF ~(200 <= o.status /\ o.status < 300) THEN "HTTPStatusError"
    ELSE IF o.ctype = "application/json" /\ o.body # "json" THEN "ValueError"
    ELSE None

\* The payload parsed from a 2xx response by its declared content type.
Payload(o) ==
    IF o.ctype = "application/json" THEN [tag |-> "ok", form |-> "json"]
    ELSE IF o.ctype \in {"text/csv"} THEN [tag |-> "ok", form |-> "csv"]
    ELSE IF o.body = "json" THEN [tag |-> "ok", form |-> "json"]
    ELSE [tag |-> "ok", form |-> "text"]

\* The except clauses of make_request, in order.
HandlersNoCatchAll == <<"TimeoutException", "HTTPStatusError", "RequestError">>
Handlers == <<"TimeoutException", "HTTPStatusError", "RequestError", "Exception">>

\* The first except clause that catches an exception of class c; None when
\* none does and the exception leaves make_request.
Handler(c) ==
    LET hit == {i \in 1..Len(Handlers) : Handlers[i] \in Bases(c)}
    IN IF hit = {} THEN None
       ELSE Handlers[CHOOSE i \in hit : \A j \in hit : i <= j]

\* "Don't retry client errors (4xx) except 429"
IsClientErrorFrom401(status) == 400 < status /\ status < 500 /\ status # 429
IsClientError(status) == 400 <= status /\ status < 500 /\ status # 429

\* _calculate_retry_delay
CalculateRetryDelayUncapped(a) == RETRY_DELAY_BASE * Pow2(a)
CalculateRetryDelay(a) == Min(RETRY_DELAY_BASE * Pow2(a), RETRY_DELAY_MAX)

ErrorOf(o, a) ==
    [class |-> ExceptionOf(o), attempt |-> a,
     status |-> IF o.kind = "response" THEN o.status ELSE 0]

\* for attempt in range(retries + 1): the loop has another iteration.
LoopRunsOnceMore == attempt <= retries + 1
LoopRuns == attempt <= retries

\* One iteration of the loop: rate limit, GET, classification, and the
\* backoff sleep that ends the iteration.
ReqAttempt(o) ==
    /\ rq_pc = "loop"
    /\ LoopRuns
    /\ httpCalls' = httpCalls + 1
    /\ outcomes' = Append(outcomes, o)
    /\ LET exc == ExceptionOf(o)
           h == Handler(exc)
           err == ErrorOf(o, attempt)
           backoff == IF attempt < retries
                      THEN <<CalculateRetryDelay(attempt)>> ELSE <<>>
       IN IF exc = None /\ o.status = 429
          THEN \* sleep retry_after; continue
               /\ sleeps' = Append(sleeps, RetryAfter(o))
               /\ attempt' = attempt + 1
               /\ UNCHANGED <<rq_pc, last_error, result>>
          ELSE IF exc = None
          THEN \* return the parsed payload
               /\ rq_pc' = "done"
               /\ result' = Payload(o)
               /\ UNCHANGED <<attempt, last_error, sleeps>>
          ELSE IF h = None
          THEN \* no except clause matches: the exception propagates
               /\ rq_pc' = "done"
               /\ result' = [tag |-> "raised", err |-> err]
               /\ UNCHANGED <<attempt, last_error, sleeps>>
          ELSE IF h = "HTTPStatusError" /\ IsClientError(o.status)
          THEN /\ rq_pc' = "done"
               /\ last_error' = err
               /\ result' = [tag |-> "error", why |-> "client", err |-> err]
               /\ UNCHANGED <<attempt, sleeps>>
          ELSE IF h = "Exception"
          THEN /\ rq_pc' = "done"
               /\ last_error' = err
               /\ result' = [tag |-> "error", why |-> "unexpected", err |-> err]
               /\ UNCHANGED <<attempt, sleeps>>
          ELSE \* timeout, 5xx, request error: retry after the backoff
               /\ last_error' = err
               /\ sleeps' = sleeps \o backoff
               /\ attempt' = attempt + 1
               /\ UNCHANGED <<rq_pc, result>>
    /\ UNCHANGED retries

\* "All retries exhausted"
ReqExhausted ==
    /\ rq_pc = "loop"
    /\ ~LoopRuns
    /\ rq_pc' = "done"
    /\ result' = [tag |-> "error", why |-> "exhausted", err |-> last_error]
    /\ UNCHANGED <<retries, attempt, httpCalls, outcomes, last_error, sleeps>>

ReqInit ==
    /\ rq_pc = "loop"
    /\ attempt = 0
    /\ httpCalls = 0
    /\ outcomes = <<>>
    /\ last_error = NoError
    /\ result = NoResult
    /\ sleeps = <<>>

(***************************************************************************)
(* Claims about make_request (checked under SpecReq)                       *)
(***************************************************************************)
Is429(o) == o.kind = "response" /\ o.status = 429
Is4xx(o) == o.kind = "response" /\ o.status \in 400..499 /\ o.status # 429
Is5xx(o) == o.kind = "response" /\ o.status \in 500..599
IsTransient(o) ==
    \/ Is5xx(o)
    \/ o.kind = "exception" /\ o.class \in {"TimeoutException", "ConnectError"}
Done == rq_pc = "done"
Exhausted == Done /\ result.tag = "error" /\ result.why = "exhausted"
LastOutcome == outcomes[Len(outcomes)]
Budgeted == {i \in DOMAIN outcomes : ~Is429(outcomes[i])}

\* C1: a 429 response does not consume the retry budget: a request gives up
\* as exhausted only after retries + 1 attempts that were not answered 429
\* (so k 429s followed by a 2xx end in the success payload for every k).
C1_RateLimitOutsideBudget ==
    Exhausted => Cardinality(Budgeted) = retries + 1

\* C2: a 4xx response other than 429 is the last attempt of its request and
\* gives an error result carrying its status code; an upstream answering 5xx
\* to every attempt is tried exactly retries + 1 times and then an error
\* result is returned.
C2_ClientErrorEndsServerErrorRetried ==
    /\ \A i \in DOMAIN outcomes :
          Is4xx(outcomes[i]) =>
              /\ i = Len(outcomes)
              /\ httpCalls = i
              /\ Done
              /\ result.tag = "error"
              /\ result.err.status = outcomes[i].status
    /\ (outcomes # <<>> /\ \A i \in DOMAIN outcomes : Is5xx(outcomes[i])) =>
          IF Done THEN httpCalls = retries + 1 /\ result.tag = "error"
                  ELSE httpCalls <= retries + 1

C2_Witness ==
    /\ Done
    /\ Len(outcomes) = 3
    /\ Is5xx(outcomes[1]) /\ Is5xx(outcomes[2]) /\ Is4xx(outcomes[3])
    /\ result.tag = "error"

\* C3: make_request always returns a success payload or an error result and
\* never raises; when the retries are exhausted on a transient failure the
\* error result carries the error of the last attempt.
C3_TotalLastError ==
    Done =>
        /\ result.tag \in {"ok", "error"}
        /\ (Exhausted /\ IsTransient(LastOutcome)) =>
              /\ result.err.attempt = Len(outcomes) - 1
              /\ result.err.attempt = retries
              /\ result.err.class =
                    (IF LastOutcome.kind = "exception"
                     THEN LastOutcome.class ELSE "HTTPStatusError")
              /\ result.err.status =
                    (IF LastOutcome.kind = "exception"
                     THEN 0 ELSE LastOutcome.status)

C3_Witness ==
    /\ Exhausted
    /\ Len(outcomes) >= 2
    /\ Is5xx(outcomes[1])
    /\ LastOutcome.kind = "exception" /\ LastOutcome.class = "TimeoutException"
    /\ result.err.class = "TimeoutException"

\* C35: make_request issues at most retries + 1 HTTP requests, whatever the
\* upstream answers (429 to every attempt included), and then returns.
C35_BoundedCallsThenReturns ==
    /\ [](httpCalls <= retries + 1)
    /\ <>Done

C35_Witness ==
    /\ Done /\ retries >= 1
    /\ httpCalls = retries + 1
    /\ \A i \in DOMAIN outcomes : Is429(outcomes[i])

MaxDelayIndex == 6      \* the delays of attempts 0..MaxDelayIndex are compared

\* The delays the documentation gives for attempts 0..4, and the cap after
BackoffTable == <<1, 2, 4, 8, 10>>
TableDelay(i) == IF i + 1 <= Len(BackoffTable) THEN BackoffTable[i + 1] ELSE 10

\* C21: the delay slept after failed attempt i is min(base * 2^i, cap),
\* that is 1, 2, 4, 8, 10 for i = 0..4 and 10 afterwards; the delays never
\* decrease and never exceed the cap; a failed attempt that is retried
\* sleeps exactly that delay, and the final attempt sleeps none.
C21_BackoffDelays ==
    /\ [](\A i \in 0..MaxDelayIndex :
            /\ CalculateRetryDelay(i) = TableDelay(i)
            /\ CalculateRetryDelay(i) <= CalculateRetryDelay(i + 1)
            /\ CalculateRetryDelay(i) <= 10)
    /\ [][(attempt' = attempt + 1 /\ ~Is429(outcomes'[Len(outcomes')])) =>
             sleeps' = IF attempt < retries
                       THEN Append(sleeps, TableDelay(attempt))
                       ELSE sleeps]_vars

C21_Witness ==
    /\ Exhausted /\ retries = 3
    /\ sleeps = <<1, 2, 4>> /\ Len(outcomes) = 4

(***************************************************************************)
(* _rate_limit under concurrent callers (checked under SpecRL, where one   *)
(* tick is 50 ms).  asyncio tasks run one at a time and give up control    *)
(* only at an await: the code before the sleep is one step, the code after *)
(* it another.                                                             *)
(***************************************************************************)
NumTasks == 2           \* concurrent callers of _rate_limit
MaxPermits == 4         \* calls let through before the model stops
RATE_LIMIT_DELAY == 2   \* _rate_limit_delay = 0.1 s

Tasks == 1..NumTasks

\* now = time.time(); elapsed = now - _last_request_time;
\* if elapsed < _rate_limit_delay: await asyncio.sleep(...)   (suspends)
\* else: _last_request_time = time.time()                     (returns)
RateLimitEnter(t) ==
    /\ rl_pc[t] = "idle"
    /\ Len(permits) < MaxPermits
    /\ LET elapsed == now - last_request_time
       IN IF elapsed < RATE_LIMIT_DELAY
          THEN /\ rl_pc' = [rl_pc EXCEPT ![t] = "sleeping"]
               /\ rl_wake' = [rl_wake EXCEPT ![t] = now + (RATE_LIMIT_DELAY - elapsed)]
               /\ UNCHANGED <<last_request_time, permits>>
          ELSE /\ last_request_time' = now
               /\ permits' = Append(permits, now)
               /\ UNCHANGED <<rl_pc, rl_wake>>
    /\ UNCHANGED now

\* The sleep is over (at its deadline or later):
\* _last_request_time = time.time(), and the caller goes on to its request.
RateLimitWake(t) ==
    /\ rl_pc[t] = "sleeping"
    /\ now >= rl_wake[t]
    /\ last_request_time' = now
    /\ permits' = Append(permits, now)
    /\ rl_pc' = [rl_pc EXCEPT ![t] = "idle"]
    /\ UNCHANGED <<rl_wake, now>>

\* Time passes.
Tick ==
    /\ now < MaxTime
    /\ now' = now + 1

RLInit ==
    /\ last_request_time = 0
    /\ rl_pc = [t \in Tasks |-> "idle"]
    /\ rl_wake = [t \in Tasks |-> 0]
    /\ permits = <<>>

\* C4: any two consecutive calls let through by the rate limiter are at
\* least the configured delay apart, under every interleaving of callers.
C4_PermitsSpaced ==
    \A i \in 1..(Len(permits) - 1) :
        permits[i + 1] - permits[i] >= RATE_LIMIT_DELAY

(***************************************************************************)
(* TTLCache.  Every method body runs under self._lock, so each operation   *)
(* is one step.                                                            *)
(***************************************************************************)
MaxSize == 2            \* maxsize of the cache under test
DefaultTTL == 2         \* default_ttl: int = 300 (one tick is 150 s)
MaxGets == 2            \* get calls before the model stops counting
MaxUses == 5            \* operations of a history of set and get calls
MaxCacheTime == 2       \* the clock of the cache specifications stops here
NoTTL == -1             \* ttl: Optional[int] = None

CacheKeys == {"a", "b", "c"}
Values == {"v1", "v2"}
\* ttl arguments: none given, 0, and an explicit ttl of one tick
TTLArgs == {NoTTL, 0, 1}

NoOp == [op |-> "init", key |-> None, out |-> None, why |-> None, n |-> 0]

KeysOf(c) == {c[i].key : i \in DOMAIN c}
Find(c, k) == CHOOSE i \in DOMAIN c : c[i].key = k
\* del self._cache[key]
Without(c, k) == SelectSeq(c, LAMBDA e : e.key # k)
\* self._cache.move_to_end(key)
MoveToEnd(c, k) == Append(Without(c, k), c[Find(c, k)])

\* while len(self._cache) > self._maxsize: self._cache.popitem(last=False)
RECURSIVE Evict(_, _)
EvictNothing(c, m) == c
Evict(c, m) == IF Len(c) > m THEN Evict(Tail(c), m) ELSE c

\* time.time() > expiry
IsExpiredAtExpiry(t, expiry) == t >= expiry
IsExpired(t, expiry) == t > expiry

\* ttl = ttl or self._default_ttl
EffectiveTTL(ttl) == IF ttl = NoTTL \/ ttl = 0 THEN DefaultTTL ELSE ttl

\* The recency update of a get hit.
TouchNothing(c, k) == c
Touch(c, k) == MoveToEnd(c, k)

CacheGet(k) ==
    /\ IF k \notin KeysOf(cache)
       THEN /\ misses' = misses + 1
            /\ lastOp' = [op |-> "get", key |-> k, out |-> None, why |-> "absent", n |-> 0]
            /\ UNCHANGED <<cache, hits>>
       ELSE LET e == cache[Find(cache, k)]
            IN IF IsExpired(now, e.expiry)
               THEN /\ cache' = Without(cache, k)
                    /\ misses' = misses + 1
                    /\ lastOp' = [op |-> "get", key |-> k, out |-> None, why |-> "expired", n |-> 0]
                    /\ UNCHANGED hits
               ELSE /\ cache' = Touch(cache, k)
                    /\ hits' = hits + 1
                    /\ lastOp' = [op |-> "get", key |-> k, out |-> e.value, why |-> "hit", n |-> 0]
                    /\ UNCHANGED misses

CacheSet(k, v, ttl) ==
    LET expiry == now + EffectiveTTL(ttl)
        put == Append(Without(cache, k), [key |-> k, value |-> v, expiry |-> expiry])
        kept == Evict(put, MaxSize)
    IN /\ cache' = kept
       /\ lastOp' = [op |-> "set", key |-> k, out |-> None, why |-> None,
                     n |-> Len(put) - Len(kept)]
       /\ UNCHANGED <<hits, misses>>

CacheDelete(k) ==
    /\ cache' = Without(cache, k)
    /\ lastOp' = [op |-> "delete", key |-> k, out |-> None, why |-> None,
                  n |-> IF k \in KeysOf(cache) THEN 1 ELSE 0]
    /\ UNCHANGED <<hits, misses>>

CacheClearKeepingCounters ==
    /\ cache' = <<>>
    /\ lastOp' = [op |-> "clear", key |-> None, out |-> None, why |-> None, n |-> 0]
    /\ UNCHANGED <<hits, misses>>
CacheClear ==
    /\ cache' = <<>>
    /\ hits' = 0
    /\ misses' = 0
    /\ lastOp' = [op |-> "clear", key |-> None, out |-> None, why |-> None, n |-> 0]

CacheCleanup ==
    LET kept == SelectSeq(cache, LAMBDA e : ~IsExpired(now, e.expiry))
    IN /\ cache' = kept
       /\ lastOp' = [op |-> "cleanup", key |-> None, out |-> None, why |-> None,
                     n |-> Len(cache) - Len(kept)]
       /\ UNCHANGED <<hits, misses>>

\* The stats property reads the fields under the lock and modifies nothing.
CacheStats == [size |-> Len(cache), hits |-> hits, misses |-> misses]

CacheTick ==
    /\ now < MaxCacheTime
    /\ now' = now + 1
    /\ lastOp' = [op |-> "tick", key |-> None, out |-> None, why |-> None, n |-> 0]

CacheInit ==
    /\ cache = <<>>
    /\ hits = 0
    /\ misses = 0
    /\ lastOp = NoOp
    /\ uses = <<>>

\* The keys of the n most recent distinct uses of a history, latest first.
RECURSIVE Recent(_, _, _)
Recent(h, n, acc) ==
    IF h = <<>> \/ Cardinality(acc) >= n THEN acc
    ELSE Recent(SubSeq(h, 1, Len(h) - 1), n, acc \cup {h[Len(h)]})

\* C5: after any sequence of set, get, delete, clear and cleanup the cache
\* holds at most maxsize entries.
C5_SizeBounded == Len(cache) <= MaxSize

C5_Witness == lastOp.op = "set" /\ lastOp.n >= 1 /\ Len(cache) = MaxSize

\* C6: with no entry expiring, the keys retained after any sequence of set
\* and get calls are exactly the maxsize keys most recently used, a set and
\* a get hit both counting as a use (checked under SpecLRU).
C6_LeastRecentlyUsedEvicted == KeysOf(cache) = Recent(uses, MaxSize, {})

C6_Witness ==
    /\ uses = <<"a", "b", "a", "c">>
    /\ KeysOf(cache) = {"a", "c"}
    /\ lastOp.op = "set" /\ lastOp.n = 1

\* C7: a get of a stored key returns the stored value at every time up to
\* the entry's expiry and returns nothing, removing the entry, at every time
\* after it; a get of a key not stored returns nothing.
C7_GetHonoursExpiry ==
    [][lastOp'.op = "get" =>
          LET k == lastOp'.key
          IN IF k \in KeysOf(cache)
             THEN LET e == cache[Find(cache, k)]
                  IN IF now <= e.expiry
                     THEN lastOp'.out = e.value /\ k \in KeysOf(cache')
                     ELSE lastOp'.out = None /\ k \notin KeysOf(cache')
             ELSE lastOp'.out = None]_vars

C7_Witness ==
    /\ lastOp.op = "get" /\ lastOp.why = "expired" /\ lastOp.out = None
    /\ lastOp.key \notin KeysOf(cache)

\* C22: cleanup removes exactly the entries whose expiry has passed at the
\* time of the call and returns their number; every unexpired entry keeps
\* its value, its expiry and its place in the recency order and is one that
\* get returns; the hit and miss counters are unchanged.
C22_CleanupRemovesExactlyExpired ==
    [][lastOp'.op = "cleanup" =>
          LET passed == {i \in DOMAIN cache : now > cache[i].expiry}
              left == DOMAIN cache \ passed
          IN /\ KeysOf(cache') = {cache[i].key : i \in left}
             /\ Len(cache') = Cardinality(left)
             /\ lastOp'.n = Cardinality(passed)
             /\ \A i \in DOMAIN cache' :
                   /\ cache'[i] = cache[Find(cache, cache'[i].key)]
                   /\ now <= cache'[i].expiry
             /\ \A i, j \in DOMAIN cache' :
                   i < j => Find(cache, cache'[i].key) < Find(cache, cache'[j].key)
             /\ hits' = hits /\ misses' = misses]_vars

C22_Witness ==
    /\ lastOp.op = "cleanup" /\ lastOp.n = 1
    /\ Len(cache) = 1 /\ cache[1].expiry = now
    /\ hits + misses > 0

\* C29: every get adds one to exactly one of hits and misses, to hits iff it
\* returned a value, so that hits + misses counts the gets completed since
\* construction or the last clear; the size reported by stats is the number
\* of stored entries; clear leaves size, hits and misses at 0; set, delete
\* and cleanup leave hits and misses as they were.
C29_CountersExact ==
    /\ [](CacheStats.size = Cardinality(KeysOf(cache)))
    /\ [][/\ lastOp'.op = "get" =>
                /\ hits' + misses' = hits + misses + 1
                /\ hits' \in {hits, hits + 1} /\ misses' \in {misses, misses + 1}
                /\ (hits' = hits + 1) <=> (lastOp'.out # None)
                /\ CacheStats'.hits = hits' /\ CacheStats'.misses = misses'
          /\ lastOp'.op \in {"set", "delete", "cleanup"} =>
                hits' = hits /\ misses' = misses
          /\ lastOp'.op = "clear" =>
                CacheStats'.size = 0 /\ hits' = 0 /\ misses' = 0]_vars

C29_Witness ==
    /\ lastOp.op = "get" /\ lastOp.out # None
    /\ hits >= 1 /\ misses >= 1 /\ CacheStats.size = MaxSize

(***************************************************************************)
(* RedisCache.  A call to the Redis client either succeeds or raises; which *)
(* one is the environment's choice at every call (fail = 0: no call of the *)
(* operation raises, fail = i: its i-th call raises).  In SpecRedis one    *)
(* tick is 150 s, so that default_ttl = 300 s is two ticks.                *)
(***************************************************************************)
MaxRedisTime == 1       \* the clock of SpecRedis stops here
RedisDefaultTTL == 2    \* default_ttl: int = 300
HashThreshold == 200    \* len(key) > 200
LongLen == 250          \* length of the long key of the model
ShortLen == 3           \* length of its short keys

\* The redis package is installed (the import at the top of the module).
REDIS_AVAILABLE == TRUE

\* Keys as sequences of pieces, so that startswith is a prefix test.
RedisKeys == {<<"p:", "x">>, <<"p:", "long">>}
Prefixes == {<<"p:">>, <<"q:">>}
RedisValues == {"v1", "(1, 2)"}
Unserializable == "object with a key json cannot encode"
RedisTTLArgs == {NoTTL, 0, 1}

KeyLen(k) == IF k[Len(k)] = "long" THEN LongLen ELSE ShortLen
StartsWith(k, p) == Len(p) <= Len(k) /\ SubSeq(k, 1, Len(p)) = p

\* _hash_key: hashlib.sha256(key.encode()).hexdigest() for a long key
HashKey(k) == IF KeyLen(k) > HashThreshold THEN <<"sha256 of ", k>> ELSE k
\* _make_key: f"{self.prefix}{key}"
MakeKey(k) == <<"eodhd:">> \o k
FullKey(k) == MakeKey(HashKey(k))
FullKeys == {FullKey(k) : k \in RedisKeys}

\* json.dumps(value, default=str) and json.loads of it: a tuple comes back
\* as a list.
Serialize(v) == IF v = "(1, 2)" THEN "json [1, 2]" ELSE "json v1"
Deserialize(t) == IF t = "json [1, 2]" THEN "[1, 2]" ELSE "v1"

NoEntry == [val |-> None, exp |-> -1]
NoPending == [key |-> <<>>, val |-> None, exp |-> -1]

\* What the server answers for a key: Redis drops a key when its TTL is over.
RemoteHas(fk) == remote[fk] # NoEntry /\ now < remote[fk].exp

\* The operations whose calls to the client are inside try/except Exception.
TryGuardedButExists == {"connect", "get", "set", "delete", "clear_prefix", "get_stats"}
TryGuarded == {"connect", "get", "set", "delete", "exists", "clear_prefix", "get_stats"}

\* if self._connected and self._client
UsesRemote == r_connected /\ r_client

\* What an operation gave back; called: it issued a call to the Redis
\* client; val: the value argument of a set.
Returned(op, k, out, fail) ==
    [op |-> op, key |-> k, out |-> out, fail |-> fail, raised |-> FALSE,
     called |-> FALSE, val |-> None]
Called(op, k, out, fail) == [Returned(op, k, out, fail) EXCEPT !.called = TRUE]
ReturnedSet(k, v, out, fail) == [Returned("set", k, out, fail) EXCEPT !.val = v]
CalledSet(k, v, out, fail) == [Called("set", k, out, fail) EXCEPT !.val = v]
\* An exception of the client that no except clause of the operation catches.
Escaped(op, k, fail) ==
    [op |-> op, key |-> k, out |-> None, fail |-> fail, raised |-> TRUE,
     called |-> TRUE, val |-> None]

\* _fallback_get
FallbackGet(fk) ==
    IF fallback[fk] # NoEntry /\ now < fallback[fk].exp
    THEN fallback[fk].val ELSE None
FallbackAfterGet(fk) ==
    IF fallback[fk] # NoEntry /\ ~(now < fallback[fk].exp)
    THEN [fallback EXCEPT ![fk] = NoEntry] ELSE fallback

RedisConnect(fail) ==
    /\ fail \in 0..2
    /\ IF ~REDIS_AVAILABLE
       THEN /\ fail = 0
            /\ rLast' = Returned("connect", <<>>, "False", 0)
            /\ UNCHANGED <<r_connected, r_client>>
       ELSE IF fail > 0 /\ "connect" \notin TryGuarded
       THEN /\ rLast' = Escaped("connect", <<>>, fail)
            /\ r_client' = (r_client \/ fail = 2)
            /\ UNCHANGED r_connected
       ELSE IF fail = 1      \* redis.from_url raises
       THEN /\ r_connected' = FALSE
            /\ rLast' = Called("connect", <<>>, "False", fail)
            /\ UNCHANGED r_client
       ELSE IF fail = 2      \* ping raises
       THEN /\ r_client' = TRUE
            /\ r_connected' = FALSE
            /\ rLast' = Called("connect", <<>>, "False", fail)
       ELSE /\ r_client' = TRUE
            /\ r_connected' = TRUE
            /\ rLast' = Called("connect", <<>>, "True", 0)
    /\ pending' = NoPending
    /\ UNCHANGED <<remote, fallback>>

\* disconnect: the close() call is not inside a try.
RedisDisconnect(fail) ==
    /\ fail \in 0..1
    /\ IF r_client /\ r_connected
       THEN IF fail = 1
            THEN /\ rLast' = Escaped("disconnect", <<>>, 1)
                 /\ UNCHANGED r_connected
            ELSE /\ r_connected' = FALSE
                 /\ rLast' = Called("disconnect", <<>>, None, 0)
       ELSE /\ fail = 0
            /\ rLast' = Returned("disconnect", <<>>, None, 0)
            /\ UNCHANGED r_connected
    /\ pending' = NoPending
    /\ UNCHANGED <<r_client, remote, fallback>>

\* get: what it returns when no exception escapes it
GetResult(k, fail) ==
    IF UsesRemote /\ fail = 0
    THEN IF RemoteHas(FullKey(k)) THEN Deserialize(remote[FullKey(k)].val) ELSE None
    ELSE FallbackGet(FullKey(k))

RedisGet(k, fail) ==
    LET fk == FullKey(k)
    IN /\ fail \in 0..1
       /\ IF UsesRemote
          THEN IF fail = 0
               THEN /\ rLast' = Called("get", k, GetResult(k, fail), 0)
                    /\ UNCHANGED fallback
               ELSE IF "get" \in TryGuarded
               THEN /\ rLast' = Called("get", k, GetResult(k, fail), fail)
                    /\ fallback' = FallbackAfterGet(fk)
               ELSE /\ rLast' = Escaped("get", k, fail)
                    /\ UNCHANGED fallback
          ELSE /\ fail = 0
               /\ rLast' = Returned("get", k, GetResult(k, fail), 0)
               /\ fallback' = FallbackAfterGet(fk)
       /\ UNCHANGED <<r_connected, r_client, remote, pending>>

\* ttl = ttl or self.default_ttl
RedisTTL(ttl) == IF ttl = NoTTL \/ ttl = 0 THEN RedisDefaultTTL ELSE ttl

RedisSet(k, v, ttl, fail) ==
    LET fk == FullKey(k)
        t == RedisTTL(ttl)
        fbset == [fallback EXCEPT ![fk] = [val |-> v, exp |-> now + t]]
    IN /\ fail \in 0..1
       /\ IF v = Unserializable
          THEN \* json.dumps raises TypeError: return False
               /\ fail = 0
               /\ rLast' = ReturnedSet(k, v, "False", 0)
               /\ pending' = NoPending
               /\ UNCHANGED <<remote, fallback>>
          ELSE IF UsesRemote
          THEN IF fail = 0
               THEN /\ remote' = [remote EXCEPT ![fk] = [val |-> Serialize(v), exp |-> now + t]]
                    /\ rLast' = CalledSet(k, v, "True", 0)
                    /\ pending' = NoPending
                    /\ UNCHANGED fallback
               ELSE IF "set" \in TryGuarded
               THEN /\ fallback' = fbset
                    /\ rLast' = CalledSet(k, v, "True", fail)
                    /\ pending' = [key |-> k, val |-> v, exp |-> now + t]
                    /\ UNCHANGED remote
               ELSE /\ rLast' = Escaped("set", k, fail)
                    /\ pending' = NoPending
                    /\ UNCHANGED <<remote, fallback>>
          ELSE /\ fail = 0
               /\ fallback' = fbset
               /\ rLast' = ReturnedSet(k, v, "True", 0)
               /\ pending' = NoPending
               /\ UNCHANGED remote
       /\ UNCHANGED <<r_connected, r_client>>

RedisDelete(k, fail) ==
    LET fk == FullKey(k)
    IN /\ fail \in 0..1
       /\ IF UsesRemote
          THEN IF fail = 0
               THEN /\ remote' = [remote EXCEPT ![fk] = NoEntry]
                    /\ rLast' = Called("delete", k, "True", 0)
                    /\ UNCHANGED fallback
               ELSE IF "delete" \in TryGuarded
               THEN /\ rLast' = Called("delete", k, "False", fail)
                    /\ UNCHANGED <<remote, fallback>>
               ELSE /\ rLast' = Escaped("delete", k, fail)
                    /\ UNCHANGED <<remote, fallback>>
          ELSE /\ fail = 0
               /\ fallback' = [fallback EXCEPT ![fk] = NoEntry]
               /\ rLast' = Returned("delete", k, "True", 0)
               /\ UNCHANGED remote
       /\ pending' = NoPending
       /\ UNCHANGED <<r_connected, r_client>>

\* The number of a count as the string the model keeps in rLast.out.
CountOut(n) == <<"count", n>>

RedisClearPrefix(p, fail) ==
    LET full_prefix == MakeKey(p)
        rkeys == {fk \in FullKeys : RemoteHas(fk) /\ StartsWith(fk, full_prefix)}
        fkeys == {fk \in FullKeys : fallback[fk] # NoEntry /\ StartsWith(fk, full_prefix)}
    IN /\ fail \in 0..2
       /\ IF UsesRemote
          THEN /\ fail = 2 => rkeys # {}      \* delete is called only if keys
               /\ IF fail = 0
                  THEN /\ remote' = [fk \in FullKeys |->
                                        IF fk \in rkeys THEN NoEntry ELSE remote[fk]]
                       /\ rLast' = Called("clear_prefix", p, CountOut(Cardinality(rkeys)), 0)
                  ELSE IF "clear_prefix" \in TryGuarded
                  THEN /\ rLast' = Called("clear_prefix", p, CountOut(0), fail)
                       /\ UNCHANGED remote
                  ELSE /\ rLast' = Escaped("clear_prefix", p, fail)
                       /\ UNCHANGED remote
               /\ UNCHANGED fallback
          ELSE /\ fail = 0
               /\ fallback' = [fk \in FullKeys |->
                                  IF fk \in fkeys THEN NoEntry ELSE fallback[fk]]
               /\ rLast' = Returned("clear_prefix", p, CountOut(Cardinality(fkeys)), 0)
               /\ UNCHANGED remote
       /\ pending' = NoPending
       /\ UNCHANGED <<r_connected, r_client>>

RedisExists(k, fail) ==
    LET fk == FullKey(k)
        bool(b) == IF b THEN "True" ELSE "False"
    IN /\ fail \in 0..1
       /\ IF UsesRemote
          THEN IF fail = 0
               THEN rLast' = Called("exists", k, bool(RemoteHas(fk)), 0)
               ELSE IF "exists" \in TryGuarded
               THEN rLast' = Called("exists", k, bool(fallback[fk] # NoEntry), fail)
               ELSE rLast' = Escaped("exists", k, fail)
          ELSE /\ fail = 0
               /\ rLast' = Returned("exists", k,
                              bool(fallback[fk] # NoEntry /\ now < fallback[fk].exp), 0)
       /\ UNCHANGED <<r_connected, r_client, remote, fallback, pending>>

RedisGetStats(fail) ==
    /\ fail \in 0..2
    /\ IF UsesRemote
       THEN IF fail = 0 \/ "get_stats" \in TryGuarded
            THEN rLast' = Called("get_stats", <<>>, "stats", fail)
            ELSE rLast' = Escaped("get_stats", <<>>, fail)
       ELSE /\ fail = 0
            /\ rLast' = Returned("get_stats", <<>>, "stats", 0)
    /\ UNCHANGED <<r_connected, r_client, remote, fallback, pending>>

\* Time passes; the server drops the keys whose TTL is over.
RedisTick ==
    /\ now < MaxRedisTime
    /\ now' = now + 1
    /\ remote' = [fk \in FullKeys |->
                     IF remote[fk] # NoEntry /\ ~(now + 1 < remote[fk].exp)
                     THEN NoEntry ELSE remote[fk]]
    /\ rLast' = Returned("tick", <<>>, None, 0)
    /\ UNCHANGED <<r_connected, r_client, fallback, pending>>

RedisInit ==
    /\ r_connected = FALSE
    /\ r_client = FALSE
    /\ remote = [fk \in FullKeys |-> NoEntry]
    /\ fallback = [fk \in FullKeys |-> NoEntry]
    /\ rLast = Returned("init", <<>>, None, 0)
    /\ pending = NoPending

\* C8: on a connected RedisCache, after a set(key, value) whose remote call
\* failed, a get(key) within the TTL returns value, whether the remote call
\* of the get fails or succeeds.
C8_FailedSetStillReadable ==
    [][(/\ rLast'.op = "get"
        /\ pending # NoPending
        /\ rLast'.key = pending.key
        /\ UsesRemote
        /\ now < pending.exp)
       => (~rLast'.raised /\ rLast'.out = pending.val)]_vars

\* C9: connect, get, set, delete, exists, clear_prefix and get_stats return
\* to the caller whichever of their calls to the remote store fails; no
\* exception of the client escapes them.
C9_NoRemoteFailureEscapes ==
    rLast.op \in {"connect", "get", "set", "delete", "exists", "clear_prefix", "get_stats"}
        => ~rLast.raised

C9_Witness ==
    /\ rLast.op = "clear_prefix" /\ rLast.fail = 2
    /\ ~rLast.raised /\ rLast.out = CountOut(0)

\* C23: while the RedisCache is disconnected, get, set, delete, exists and
\* clear_prefix issue no call to the remote store and act only on the
\* fallback map; there a set(k, v) is read back by get(k) before the TTL is
\* over, delete(k) leaves get(k) absent, and clear_prefix(p) removes exactly
\* the entries whose key starts with p.
Disconnected == ~(r_connected /\ r_client)
LiveIn(fb, k) == fb[FullKey(k)] # NoEntry /\ now < fb[FullKey(k)].exp
C23_DisconnectedUsesFallbackOnly ==
    [][(Disconnected /\ rLast'.op \in {"get", "set", "delete", "exists", "clear_prefix"}) =>
          LET k == rLast'.key
          IN /\ ~rLast'.called /\ ~rLast'.raised /\ remote' = remote
             /\ rLast'.op = "get" =>
                   rLast'.out = IF LiveIn(fallback, k) THEN fallback[FullKey(k)].val
                                ELSE None
             /\ rLast'.op = "exists" =>
                   (rLast'.out = "True" <=> LiveIn(fallback, k))
             /\ (rLast'.op = "set" /\ rLast'.val # Unserializable) =>
                   /\ LiveIn(fallback', k)
                   /\ fallback'[FullKey(k)].val = rLast'.val
             /\ rLast'.op = "delete" => ~LiveIn(fallback', k)
             /\ rLast'.op = "clear_prefix" =>
                   \A key \in RedisKeys :
                       fallback'[FullKey(key)] =
                           IF StartsWith(key, k) THEN NoEntry
                           ELSE fallback[FullKey(key)]]_vars

\* C33: when the remote call of a connected RedisCache's delete(key) or
\* clear_prefix(prefix) fails, the operation is applied to the fallback
\* map: afterwards the map holds no entry for the key, or no entry stored
\* under the prefix.
C33_FailedRemovalFallsBack ==
    (rLast.called /\ rLast.fail > 0 /\ ~rLast.raised) =>
        /\ rLast.op = "delete" => fallback[FullKey(rLast.key)] = NoEntry
        /\ rLast.op = "clear_prefix" =>
              \A key \in RedisKeys :
                  StartsWith(key, rLast.key) => fallback[FullKey(key)] = NoEntry

\* C36: once delete(key) has returned true, get(key) returns absent until
\* the next set(key, ...), whatever the state of the connection and of the
\* remote store at the delete and at the get; stated for the get that
\* directly follows the delete.
C36_DeletedStaysAbsent ==
    [][(/\ rLast.op = "delete" /\ rLast.out = "True"
        /\ rLast'.op = "get" /\ rLast'.key = rLast.key /\ now' = now)
       => (~rLast'.raised /\ rLast'.out = None)]_vars

\* C37: exists agrees with get: with the connection and the remote store in
\* the same condition for both, exists(key) is true iff get(key) returns a
\* value; in particular it is false for a fallback entry whose TTL is over.
C37_ExistsAgreesWithGet ==
    (rLast.op = "exists" /\ ~rLast.raised) =>
        (rLast.out = "True" <=> GetResult(rLast.key, rLast.fail) # None)

\* The entries the store in use holds for caller keys starting with p
StoredUnder(p) ==
    {k \in RedisKeys :
        /\ StartsWith(k, p)
        /\ IF UsesRemote THEN RemoteHas(FullKey(k)) ELSE fallback[FullKey(k)] # NoEntry}

\* C38: a clear_prefix(p) that does not fail counts and removes every entry
\* stored with a caller key starting with p, whatever the key's length, and
\* get of such a key is absent afterwards.
C38_ClearPrefixWhateverLength ==
    [][(rLast'.op = "clear_prefix" /\ rLast'.fail = 0) =>
          /\ rLast'.out = CountOut(Cardinality(StoredUnder(rLast'.key)))
          /\ \A k \in StoredUnder(rLast'.key) :
                IF UsesRemote THEN remote'[FullKey(k)] = NoEntry
                ELSE fallback'[FullKey(k)] = NoEntry]_vars

(***************************************************************************)
(* OAuthValidator and AuthMiddleware.  One tick is 150 s, so that           *)
(* cache_ttl = 300 s is two ticks.  The answers of the introspection        *)
(* endpoint and of the user-profile endpoint are the environment's choice.  *)
(***************************************************************************)
MaxAuthTime == 2        \* the clock of SpecAuth stops here
CACHE_TTL == 2          \* cache_ttl: int = 300
NoExp == -1             \* expires_at: Optional[int] = None
ExpAt == 1              \* the exp claim of the expiring tokens of the model
BadExp == -2            \* expires_at=data.get("exp") when exp is not a number

Tokens == {"t1", "t2"}
NoHeader == <<>>
AuthHeaders ==
    {NoHeader, <<"Bearer", "t1">>, <<"bearer", "t2">>, <<"Basic", "t1">>, <<"Bearer", "">>}
ApiTokenParams == {None, "", "legacy-key"}
\* The truth value Python gives an Optional[str]
Truthy(x) == x \notin {None, ""}
\* The code only tests transport == "stdio"; "http" stands for every other one.
Transports == {"http", "stdio"}

\* What the introspection endpoint can answer to one POST.
\* body: "object" (a JSON object with an active field), "no-active" (a JSON
\* object without one), "not-object" (other JSON), "not-json"
Answer(kind, status, body, active, scope, exp) ==
    [kind |-> kind, status |-> status, body |-> body, active |-> active,
     scope |-> scope, exp |-> exp]
IntrospectionAnswers ==
    {Answer("response", 200, "object", TRUE, "full-access", NoExp),
     Answer("response", 200, "object", TRUE, "read:eod", ExpAt),
     Answer("response", 200, "object", FALSE, "", NoExp),
     Answer("response", 200, "object", TRUE, "full-access", BadExp),
     Answer("response", 200, "no-active", TRUE, "full-access", NoExp),
     Answer("response", 200, "not-object", TRUE, "full-access", NoExp),
     Answer("response", 200, "not-json", TRUE, "full-access", NoExp),
     Answer("response", 500, "object", TRUE, "full-access", NoExp),
     Answer("exception", 0, "object", TRUE, "full-access", NoExp)}
\* What the user-profile endpoint can answer to one GET.
LegacyAnswers == {"200", "401", "exception"}

InactiveInfo == [active |-> FALSE, scopes |-> {}, expires_at |-> NoExp]
DevInfo == [active |-> TRUE, scopes |-> {"full-access"}, expires_at |-> NoExp]
NoCached == [info |-> InactiveInfo, cached_at |-> -1]

\* TokenInfo.is_expired: time.time() > self.expires_at raises TypeError when
\* expires_at is not a number.
IsExpiredRaises(info) == info.expires_at = BadExp
IsExpiredToken(info, t) ==
    IF info.expires_at = NoExp THEN FALSE ELSE t > info.expires_at

\* extract_bearer_token: re.match(r"Bearer\s+(.+)", header, re.IGNORECASE)
ExtractBearerToken(h) ==
    IF h = NoHeader THEN None
    ELSE IF h[1] \in {"Bearer", "bearer"} /\ h[2] # "" THEN h[2]
    ELSE None

\* _cache_key: hashlib.sha256(token.encode()).hexdigest()[:32]
VKey(token) == <<"sha256", token>>
VKeys == {VKey(t) : t \in Tokens}

\* _get_cached: the cached TokenInfo within its TTL window
CacheFreshAtTTL(token) ==
    /\ vcache[VKey(token)] # NoCached
    /\ now - vcache[VKey(token)].cached_at <= CACHE_TTL
CacheFresh(token) ==
    /\ vcache[VKey(token)] # NoCached
    /\ now - vcache[VKey(token)].cached_at < CACHE_TTL

\* _introspect_token: the TokenInfo built from the endpoint's answer
\* What the body of the try block raises on the answer, if anything:
\* client.post, then response.json(), then data.get
IntrospectRaises(ans) ==
    IF ans.kind = "exception" THEN "RequestError"
    ELSE IF ans.status # 200 THEN None
    ELSE IF ans.body = "not-json" THEN "JSONDecodeError"
    ELSE IF ans.body = "not-object" THEN "AttributeError"
    ELSE None
IntrospectTokenIgnoringStatus(ans) ==
    IF IntrospectRaises(ans) # None THEN InactiveInfo
    ELSE [active |-> ans.active,
          scopes |-> IF ans.scope = "" THEN {} ELSE {ans.scope},
          expires_at |-> ans.exp]
IntrospectToken(ans) ==
    IF IntrospectRaises(ans) # None THEN InactiveInfo
    ELSE IF ans.status # 200 THEN InactiveInfo
    ELSE [active |-> IF ans.body = "no-active" THEN FALSE ELSE ans.active,
          scopes |-> IF ans.scope = "" THEN {} ELSE {ans.scope},
          expires_at |-> ans.exp]

\* validate_token: the TokenInfo returned, the cache afterwards, and where
\* the TokenInfo came from.
ValidateToken(token, ans) ==
    LET k == VKey(token)
    IN IF CacheFresh(token)
       THEN [info |-> vcache[k].info, cache |-> vcache, via |-> "cache"]
       ELSE LET dropped == [vcache EXCEPT ![k] = NoCached]
            IN IF introspection_url
               THEN LET info == IntrospectToken(ans)
                    IN [info |-> info,
                        cache |-> [dropped EXCEPT ![k] = [info |-> info, cached_at |-> now]],
                        via |-> "introspection"]
               ELSE [info |-> DevInfo, cache |-> dropped, via |-> "development"]

AuthOk(method, scopes) ==
    [authenticated |-> TRUE, method |-> method, scopes |-> scopes, error |-> None]
\* No AuthResult: the exception exc leaves authenticate; the record keeps
\* its class where an AuthResult has its error.
AuthRaised(exc) ==
    [authenticated |-> FALSE, method |-> None, scopes |-> {}, error |-> exc]
AuthFailed(error) ==
    [authenticated |-> FALSE, method |-> None, scopes |-> {}, error |-> error]

\* validate_legacy_api_key
ValidateLegacyApiKey(ans) ==
    IF ans = "200" THEN AuthOk("api_key", {"full-access"})
    ELSE IF ans = "401" THEN AuthFailed("invalid_token")
    ELSE AuthFailed("server_error")

\* if token_info.active and not token_info.is_expired()
AcceptsActiveOnly(info) == info.active
Accepts(info) == info.active /\ ~IsExpiredToken(info, now)

\* authenticate: which of its return statements' branches the call takes
BranchLegacyFirst(transport, bearer, param, allow_legacy, allow_env) ==
    IF transport = "stdio" THEN "stdio"
    ELSE IF allow_legacy /\ Truthy(param) THEN "legacy"
    ELSE IF Truthy(bearer) THEN "bearer"
    ELSE IF allow_env /\ env_key THEN "env"
    ELSE "none"
BranchBearerFirst(transport, bearer, param, allow_legacy, allow_env) ==
    IF Truthy(bearer) THEN "bearer"
    ELSE IF transport = "stdio" THEN "stdio"
    ELSE IF allow_legacy /\ Truthy(param) THEN "legacy"
    ELSE IF allow_env /\ env_key THEN "env"
    ELSE "none"
BranchEnvFirst(transport, bearer, param, allow_legacy, allow_env) ==
    IF transport = "stdio" THEN "stdio"
    ELSE IF Truthy(bearer) THEN "bearer"
    ELSE IF allow_env /\ env_key THEN "env"
    ELSE IF allow_legacy /\ Truthy(param) THEN "legacy"
    ELSE "none"
Branch(transport, bearer, param, allow_legacy, allow_env) ==
    IF transport = "stdio" THEN "stdio"
    ELSE IF Truthy(bearer) THEN "bearer"
    ELSE IF allow_legacy /\ Truthy(param) THEN "legacy"
    ELSE IF allow_env /\ env_key THEN "env"
    ELSE "none"

\* authenticate: the AuthResult, the validator's cache afterwards, and what
\* the call consulted on its way.
Authenticate(header, param, transport, allow_legacy, allow_env, ians, lans) ==
    LET bearer == ExtractBearerToken(header)
        unvalidated == [cache |-> vcache, via |-> "none", info |-> InactiveInfo,
                        legacy |-> FALSE]
        branch == Branch(transport, bearer, param, allow_legacy, allow_env)
    IN IF branch = "stdio"
       THEN [res |-> IF allow_env /\ env_key
                     THEN AuthOk("env", {"full-access"})
                     ELSE AuthFailed("missing_token")] @@ unvalidated
       ELSE IF branch = "bearer"
       THEN LET v == ValidateToken(bearer, ians)
            IN [res |-> \* token_info.active and not token_info.is_expired()
                        IF v.info.active /\ IsExpiredRaises(v.info)
                        THEN AuthRaised("TypeError")
                        ELSE IF Accepts(v.info)
                        THEN AuthOk("oauth", v.info.scopes)
                        ELSE AuthFailed("invalid_token"),
                cache |-> v.cache, via |-> v.via, info |-> v.info, legacy |-> FALSE]
       ELSE IF branch = "legacy"
       THEN [res |-> ValidateLegacyApiKey(lans), cache |-> vcache, via |-> "none",
             info |-> InactiveInfo, legacy |-> TRUE]
       ELSE IF branch = "env"
       THEN [res |-> AuthOk("env", {"full-access"})] @@ unvalidated
       ELSE [res |-> AuthFailed("missing_token")] @@ unvalidated

\* One authenticate call of the AuthMiddleware.
AuthenticateCall(header, param, transport, ians, lans) ==
    LET a == Authenticate(header, param, transport, allow_legacy_api_key,
                          allow_env_api_key, ians, lans)
    IN /\ vcache' = a.cache
       /\ aLast' = [op |-> "authenticate",
                    bearer |-> ExtractBearerToken(header),
                    param |-> Truthy(param),
                    stdio |-> (transport = "stdio"),
                    authenticated |-> a.res.authenticated,
                    method |-> a.res.method,
                    scopes |-> a.res.scopes,
                    error |-> a.res.error,
                    via |-> a.via,
                    answered |-> IF a.via = "introspection"
                                 THEN <<ians.kind, ians.status, ians.body>>
                                 ELSE <<>>,
                    active |-> a.info.active,
                    expired |-> IsExpiredToken(a.info, now),
                    info |-> a.info,
                    legacy |-> a.legacy]
       /\ UNCHANGED <<introspection_url, env_key, allow_legacy_api_key, allow_env_api_key>>

AuthTick ==
    /\ now < MaxAuthTime
    /\ now' = now + 1
    /\ UNCHANGED <<introspection_url, env_key, allow_legacy_api_key,
                   allow_env_api_key, vcache, aLast>>

NoAuth ==
    [op |-> "init", bearer |-> None, param |-> FALSE, stdio |-> FALSE,
     authenticated |-> FALSE, method |-> None, scopes |-> {}, error |-> None, via |-> "none",
     answered |-> <<>>, active |-> FALSE,
     expired |-> FALSE, info |-> InactiveInfo, legacy |-> FALSE]

AuthInit ==
    /\ introspection_url \in BOOLEAN
    /\ env_key \in BOOLEAN
    /\ allow_legacy_api_key \in BOOLEAN
    /\ allow_env_api_key \in BOOLEAN
    /\ vcache = [k \in VKeys |-> NoCached]
    /\ aLast = NoAuth

\* C10: over a transport other than stdio and with a bearer token present,
\* authenticate accepts only if the TokenInfo the validator returns for the
\* token (fresh or from its cache) is active and not expired at the time of
\* the call; otherwise it fails with invalid_token; in neither case does it
\* consult the legacy parameter or the environment credential.
C10_BearerDecidesAlone ==
    \A header \in AuthHeaders, param \in ApiTokenParams,
       transport \in Transports \ {"stdio"},
       ians \in IntrospectionAnswers, lans \in LegacyAnswers :
        LET a == Authenticate(header, param, transport, allow_legacy_api_key,
                              allow_env_api_key, ians, lans)
            ok == a.info.active
                  /\ (a.info.expires_at = NoExp \/ now <= a.info.expires_at)
        IN ExtractBearerToken(header) # None =>
              /\ a.via # "none"
              /\ ~a.legacy
              /\ IF ok
                 THEN a.res = AuthOk("oauth", a.info.scopes)
                 ELSE a.res = AuthFailed("invalid_token")

C10_Witness ==
    /\ aLast.op = "authenticate" /\ aLast.bearer # None /\ ~aLast.stdio
    /\ aLast.via = "cache" /\ aLast.active /\ aLast.expired
    /\ ~aLast.authenticated /\ aLast.error = "invalid_token"
    /\ env_key

\* C11: over HTTP, with a bearer token the validator reports active and
\* unexpired and with a legacy parameter the user-profile endpoint would
\* accept, authenticate answers through the bearer path: method oauth with
\* the token's scopes, and the user-profile endpoint is not contacted.
C11_BearerWinsOverLegacy ==
    \A header \in AuthHeaders, param \in ApiTokenParams, ians \in IntrospectionAnswers :
        LET bearer == ExtractBearerToken(header)
            v == ValidateToken(bearer, ians)
            a == Authenticate(header, param, "http", allow_legacy_api_key,
                              allow_env_api_key, ians, "200")
        IN (Truthy(bearer) /\ Truthy(param)
            /\ v.info.active /\ ~IsExpiredToken(v.info, now)) =>
              /\ a.res.authenticated /\ a.res.method = "oauth"
              /\ a.res.scopes = v.info.scopes
              /\ ~a.legacy

C11_Witness ==
    /\ aLast.op = "authenticate" /\ ~aLast.stdio
    /\ Truthy(aLast.bearer) /\ aLast.param /\ allow_legacy_api_key
    /\ aLast.authenticated /\ aLast.method = "oauth"
    /\ aLast.scopes = {"read:eod"} /\ ~aLast.legacy

\* C12 as stated: over stdio, authenticate accepts exactly when the
\* environment credential is present (method env, full-access) and fails
\* with missing_token otherwise, without calling the validator.
C12_StdioIffEnvCredential ==
    (aLast.op = "authenticate" /\ aLast.stdio) =>
        /\ aLast.via = "none" /\ ~aLast.legacy
        /\ IF env_key
           THEN aLast.authenticated /\ aLast.method = "env"
                /\ aLast.scopes = {"full-access"}
           ELSE ~aLast.authenticated /\ aLast.error = "missing_token"

\* C12 amended: over stdio, authenticate accepts exactly when env-fallback
\* is enabled and the environment credential is present (method env,
\* full-access) and fails with missing_token otherwise; the header and the
\* legacy parameter have no influence, and neither the validator nor the
\* user-profile endpoint is called.
C12_StdioIffEnvAllowedAndPresent ==
    \A header \in AuthHeaders, param \in ApiTokenParams,
       ians \in IntrospectionAnswers, lans \in LegacyAnswers :
        LET a == Authenticate(header, param, "stdio", allow_legacy_api_key,
                              allow_env_api_key, ians, lans)
        IN /\ a.res = IF allow_env_api_key /\ env_key
                      THEN AuthOk("env", {"full-access"})
                      ELSE AuthFailed("missing_token")
           /\ a.via = "none" /\ ~a.legacy /\ a.cache = vcache

C12_Witness ==
    /\ aLast.op = "authenticate" /\ aLast.stdio
    /\ Truthy(aLast.bearer) /\ aLast.param /\ allow_legacy_api_key
    /\ aLast.authenticated /\ aLast.method = "env" /\ aLast.via = "none"

\* C13: for a non-stdio call without a bearer token the first matching step
\* decides: with legacy mode enabled and a (non-empty) legacy parameter, the
\* user-profile check alone (api_key with full-access on 200, a failure
\* otherwise, whatever the environment holds); else with env-fallback enabled
\* and an environment credential, env with full-access; else missing_token.
C13_FirstMatchWithoutBearer ==
    \A header \in AuthHeaders, param \in ApiTokenParams,
       ians \in IntrospectionAnswers, lans \in LegacyAnswers :
        LET a == Authenticate(header, param, "http", allow_legacy_api_key,
                              allow_env_api_key, ians, lans)
        IN ~Truthy(ExtractBearerToken(header)) =>
             /\ a.via = "none"
             /\ IF allow_legacy_api_key /\ Truthy(param)
                THEN /\ a.legacy
                     /\ IF lans = "200"
                        THEN a.res = AuthOk("api_key", {"full-access"})
                        ELSE ~a.res.authenticated
                             /\ a.res.error \in {"invalid_token", "server_error"}
                ELSE /\ ~a.legacy
                     /\ IF allow_env_api_key /\ env_key
                        THEN a.res = AuthOk("env", {"full-access"})
                        ELSE a.res = AuthFailed("missing_token")

C13_Witness ==
    /\ aLast.op = "authenticate" /\ ~aLast.stdio
    /\ ~Truthy(aLast.bearer) /\ aLast.param /\ aLast.legacy
    /\ allow_env_api_key /\ env_key
    /\ ~aLast.authenticated /\ aLast.error = "server_error"

\* C15: whatever the outcome and whatever the mode, after validate_token(t)
\* returns the validator's cache holds an entry for t.
C15_EveryResultCached ==
    (aLast.op = "authenticate" /\ aLast.via # "none") =>
        vcache[VKey(aLast.bearer)] # NoCached

\* C16: with an introspection endpoint configured, a freshly computed
\* TokenInfo is active only if the endpoint answered 200 with a JSON object
\* whose active field is true; a non-200 status, a transport error or a
\* body that does not parse gives the inactive TokenInfo, which is cached
\* like any other.
C16_IntrospectionFailsClosed ==
    \A token \in Tokens, ans \in IntrospectionAnswers :
        (introspection_url /\ ~CacheFresh(token)) =>
            LET v == ValidateToken(token, ans)
                good == ans.kind = "response" /\ ans.status = 200
                        /\ ans.body = "object" /\ ans.active
            IN /\ v.via = "introspection"
               /\ v.info.active <=> good
               /\ (ans.kind = "exception" \/ ans.status # 200
                   \/ ans.body \in {"not-json", "not-object"}) => v.info = InactiveInfo
               /\ v.cache[VKey(token)].info = v.info

C16_Witness ==
    /\ aLast.op = "authenticate" /\ aLast.via = "introspection"
    /\ aLast.answered = <<"response", 200, "not-object">>
    /\ ~aLast.active /\ aLast.error = "invalid_token"
    /\ vcache[VKey(aLast.bearer)].info = InactiveInfo

\* C24: every outcome of authenticate is a well-formed AuthResult and no
\* exception escapes: authenticated with method oauth, api_key or env and no
\* error, or not authenticated with error missing_token, invalid_token or
\* server_error, whatever the header, the legacy parameter, the transport,
\* the flags and the answers of the two endpoints.
C24_AlwaysWellFormedResult ==
    aLast.op = "authenticate" =>
        \/ /\ aLast.authenticated
           /\ aLast.method \in {"oauth", "api_key", "env"}
           /\ aLast.error = None
        \/ /\ ~aLast.authenticated
           /\ aLast.method = None
           /\ aLast.error \in {"missing_token", "invalid_token", "server_error"}

\* C32: with introspection configured, a validate_token(t) issued less than
\* cache_ttl after t was introspected returns the cached TokenInfo and
\* leaves the cache alone (the endpoint is not contacted); one issued
\* cache_ttl or more later, or for a token never introspected, contacts the
\* endpoint and replaces the entry of t; the entries of the other tokens
\* stay as they were.
C32_CacheWindow ==
    [][(now' = now /\ aLast'.op = "authenticate" /\ aLast'.via # "none"
            /\ introspection_url) =>
          LET k == VKey(aLast'.bearer)
          IN IF vcache[k] # NoCached /\ now < vcache[k].cached_at + CACHE_TTL
             THEN /\ aLast'.via = "cache"
                  /\ aLast'.answered = <<>>
                  /\ aLast'.info = vcache[k].info
                  /\ vcache' = vcache
             ELSE /\ aLast'.via = "introspection"
                  /\ aLast'.answered # <<>>
                  /\ vcache'[k] = [info |-> aLast'.info, cached_at |-> now]
                  /\ \A j \in VKeys \ {k} : vcache'[j] = vcache[j]]_vars

C32_Witness ==
    /\ introspection_url
    /\ aLast.op = "authenticate" /\ aLast.via = "cache"
    /\ now = vcache[VKey(aLast.bearer)].cached_at + CACHE_TTL - 1
    /\ aLast.info = vcache[VKey(aLast.bearer)].info
    /\ \E j \in VKeys \ {VKey(aLast.bearer)} :
          vcache[j] # NoCached /\ vcache[j].cached_at < now

(***************************************************************************)
(* Scope authorization: TOOL_SCOPES, get_required_scopes,                  *)
(* TokenInfo.has_scope / has_any_scope (app/oauth.py) and                  *)
(* AuthMiddleware.check_scope (app/auth.py).  Lists are sequences.         *)
(***************************************************************************)
MaxRequested == 2       \* longest list passed to has_any_scope
MaxScopes == 2          \* an AuthResult of the model holds at most this many scopes

SCOPES ==
    {"read:eod", "read:intraday", "read:live", "read:fundamentals",
     "read:news", "read:technicals", "read:options", "read:marketplace",
     "read:screener", "read:macro", "read:user", "full-access"}

TOOL_SCOPES ==
    "get_historical_stock_prices" :> <<"read:eod", "full-access">> @@
    "get_bulk_eod" :> <<"read:eod", "full-access">> @@
    "get_historical_dividends" :> <<"read:eod", "full-access">> @@
    "get_historical_splits" :> <<"read:eod", "full-access">> @@
    "get_intraday_historical_data" :> <<"read:intraday", "full-access">> @@
    "get_us_tick_data" :> <<"read:intraday", "full-access">> @@
    "get_live_price_data" :> <<"read:live", "full-access">> @@
    "get_us_live_extended_quotes" :> <<"read:live", "full-access">> @@
    "get_batch_quotes" :> <<"read:live", "full-access">> @@
    "get_fundamentals_data" :> <<"read:fundamentals", "full-access">> @@
    "get_esg_scores" :> <<"read:fundamentals", "full-access">> @@
    "get_analyst_ratings" :> <<"read:fundamentals", "full-access">> @@
    "get_price_targets" :> <<"read:fundamentals", "full-access">> @@
    "get_institutional_holders" :> <<"read:fundamentals", "full-access">> @@
    "get_short_interest" :> <<"read:fundamentals", "full-access">> @@
    "get_fund_holdings" :> <<"read:fundamentals", "full-access">> @@
    "get_bond_fundamentals" :> <<"read:fundamentals", "full-access">> @@
    "get_company_news" :> <<"read:news", "full-access">> @@
    "get_financial_news" :> <<"read:news", "full-access">> @@
    "get_sentiment_data" :> <<"read:news", "full-access">> @@
    "get_news_word_weights" :> <<"read:news", "full-access">> @@
    "get_technical_indicators" :> <<"read:technicals", "full-access">> @@
    "get_us_options_contracts" :> <<"read:options", "full-access">> @@
    "get_us_options_eod" :> <<"read:options", "full-access">> @@
    "get_us_options_underlyings" :> <<"read:options", "full-access">> @@
    "mp_illio_performance_insights" :> <<"read:marketplace", "full-access">> @@
    "mp_illio_risk_insights" :> <<"read:marketplace", "full-access">> @@
    "get_mp_praams_risk_scoring_by_ticker" :> <<"read:marketplace", "full-access">> @@
    "get_mp_investverte_esg_view_company" :> <<"read:marketplace", "full-access">> @@
    "stock_screener" :> <<"read:screener", "full-access">> @@
    "get_stocks_from_search" :> <<"read:screener", "full-access">> @@
    "get_market_movers" :> <<"read:screener", "full-access">> @@
    "get_sector_performance" :> <<"read:screener", "full-access">> @@
    "get_macro_indicator" :> <<"read:macro", "full-access">> @@
    "get_economic_events" :> <<"read:macro", "full-access">> @@
    "get_user_details" :> <<"read:user", "full-access">> @@
    "get_exchanges_list" :> <<"read:eod", "full-access">> @@
    "get_exchange_tickers" :> <<"read:eod", "full-access">> @@
    "get_exchange_details" :> <<"read:eod", "full-access">> @@
    "get_available_exchanges" :> <<"read:eod", "full-access">> @@
    "get_trading_hours" :> <<"read:eod", "full-access">>

\* A scope no entry of SCOPES names, and a tool no entry of TOOL_SCOPES names
ScopeNames == SCOPES \cup {"openid"}
ToolNames == DOMAIN TOOL_SCOPES \cup {"any_tool"}

\* get_required_scopes: TOOL_SCOPES.get(tool_name, ["full-access"])
GetRequiredScopes(tool) ==
    IF tool \in DOMAIN TOOL_SCOPES THEN TOOL_SCOPES[tool] ELSE <<"full-access">>

\* TokenInfo.has_scope
HasScopeExact(scopes, scope) == scope \in scopes
HasScope(scopes, scope) == scope \in scopes \/ "full-access" \in scopes

\* TokenInfo.has_any_scope: any(self.has_scope(s) for s in scopes)
HasAnyScope(scopes, required) ==
    \E i \in 1..Len(required) : HasScope(scopes, required[i])

\* check_scope
CheckScopeUnauthenticated(auth, tool) ==
    \E i \in 1..Len(GetRequiredScopes(tool)) : GetRequiredScopes(tool)[i] \in auth.scopes
CheckScope(auth, tool) ==
    IF ~auth.authenticated THEN FALSE
    ELSE LET required == GetRequiredScopes(tool)
         IN \E i \in 1..Len(required) : required[i] \in auth.scopes

AuthResults ==
    [authenticated : BOOLEAN,
     scopes : {S \in SUBSET ScopeNames : Cardinality(S) <= MaxScopes}]

\* The scope names and the lists of them that has_scope and has_any_scope are
\* asked about; "read:anything" is a name no token holds.
RequestedScopes == {"read:eod", "read:news", "full-access", "read:anything"}
RequestedLists ==
    UNION {[1..n -> RequestedScopes] : n \in 0..MaxRequested}

NoCheck ==
    [op |-> "init", tool |-> None, allowed |-> FALSE, has_any |-> FALSE,
     scope |-> None, required |-> <<>>]

CheckScopeCall(tool) ==
    /\ cs_last' = [op |-> "check_scope", tool |-> tool,
                   allowed |-> CheckScope(cs_auth, tool),
                   has_any |-> HasAnyScope(cs_auth.scopes, GetRequiredScopes(tool)),
                   scope |-> None, required |-> GetRequiredScopes(tool)]
    /\ UNCHANGED cs_auth

\* A call of has_scope(scope) on a token with the scopes of cs_auth.
HasScopeCall(scope) ==
    /\ cs_last' = [op |-> "has_scope", tool |-> None,
                   allowed |-> HasScope(cs_auth.scopes, scope),
                   has_any |-> FALSE, scope |-> scope, required |-> <<>>]
    /\ UNCHANGED cs_auth

\* A call of has_any_scope(required) on a token with the scopes of cs_auth.
HasAnyScopeCall(required) ==
    /\ cs_last' = [op |-> "has_any_scope", tool |-> None, allowed |-> FALSE,
                   has_any |-> HasAnyScope(cs_auth.scopes, required),
                   scope |-> None, required |-> required]
    /\ UNCHANGED cs_auth

ScopeInit ==
    /\ cs_auth \in AuthResults
    /\ cs_last = NoCheck

\* C14: check_scope is false for a result that is not authenticated;
\* otherwise it is true iff the tool's table entry (["full-access"] for a
\* tool outside the table) shares a scope with the result's scopes; every
\* entry contains full-access, so a result holding full-access passes for
\* every tool; and on an authenticated result check_scope agrees with
\* TokenInfo.has_any_scope on the same scopes.
C14_CheckScope ==
    cs_last.op = "check_scope" =>
        LET entry == IF cs_last.tool \in DOMAIN TOOL_SCOPES
                     THEN {TOOL_SCOPES[cs_last.tool][i] :
                              i \in DOMAIN TOOL_SCOPES[cs_last.tool]}
                     ELSE {"full-access"}
        IN /\ ~cs_auth.authenticated => ~cs_last.allowed
           /\ cs_auth.authenticated =>
                 /\ cs_last.allowed <=> (entry \cap cs_auth.scopes # {})
                 /\ cs_last.allowed <=> cs_last.has_any
                 /\ "full-access" \in cs_auth.scopes => cs_last.allowed
           /\ "full-access" \in entry

C14_Witness ==
    /\ cs_last.op = "check_scope" /\ cs_last.tool = "get_historical_stock_prices"
    /\ cs_auth.authenticated /\ cs_auth.scopes = {"read:eod", "read:news"}
    /\ cs_last.allowed /\ cs_last.has_any

\* C25: has_scope(s) is true for every s when the token's scopes contain
\* full-access and is otherwise true iff s is one of the token's scopes;
\* has_any_scope(S) is true iff has_scope holds for some member of S, and is
\* false for the empty S.
C25_HasScope ==
    LET held == cs_auth.scopes
        has(s) == IF "full-access" \in held THEN TRUE ELSE s \in held
    IN /\ cs_last.op = "has_scope" => (cs_last.allowed <=> has(cs_last.scope))
       /\ cs_last.op = "has_any_scope" =>
             /\ cs_last.has_any <=>
                   \E i \in DOMAIN cs_last.required : has(cs_last.required[i])
             /\ cs_last.required = <<>> => ~cs_last.has_any

C25_Witness ==
    /\ cs_last.op = "has_any_scope" /\ cs_last.has_any
    /\ cs_auth.scopes = {"full-access"}
    /\ cs_last.required = <<"read:anything", "read:news">>

(***************************************************************************)
(* BatchProcessor (app/batch.py): process builds one _fetch_with_semaphore *)
(* task per item, awaits asyncio.gather(return_exceptions=True) and sorts  *)
(* the outcomes.  Several process calls may run on one processor.          *)
(***************************************************************************)
MaxItems == 2           \* longest items list of SpecBatch
MaxConcurrentArg == 2   \* largest max_concurrent argument

Calls == {"c1", "c2"}
\* An item: its "id" and whether url_builder(item) returns (or raises)
Item(id, buildable) == [id |-> id, buildable |-> buildable]
Items == {Item("A", TRUE), Item("B", TRUE), Item("B", FALSE)}
ItemLists == UNION {[1..n -> Items] : n \in 0..MaxItems}

\* What one fetch ends with: a payload, the engine's {"error": ...} dict,
\* an empty payload (None or []), or an exception.
FetchOutcomes == {"data", "error", "empty", "raise"}

Waiting == [st |-> "waiting", out |-> None]
NoBatchResult == [results |-> {}, count |-> 0, total |-> 0, errors |-> <<>>]

\* success[identifier] = data: a later entry replaces an earlier one
DictSet(d, id, data) == {e \in d : e.id # id} \cup {[id |-> id, data |-> data]}

\* for result in results: the success dict and the error list after the
\* first n outcomes.  The payload of item j is <<"data", j>>; str(exception)
\* carries no identifier.
RECURSIVE Classify(_, _, _)
Classify(items, tasks, n) ==
    IF n = 0 THEN [success |-> {}, errors |-> <<>>]
    ELSE LET prev == Classify(items, tasks, n - 1)
             id == items[n].id
             out == tasks[n].out
         IN IF out = "raise"
            THEN [success |-> prev.success,
                  errors |-> Append(prev.errors, [id |-> None, msg |-> "exception"])]
            ELSE IF out = "data"
            THEN [success |-> DictSet(prev.success, id, <<"data", n>>),
                  errors |-> prev.errors]
            ELSE [success |-> prev.success,
                  errors |-> Append(prev.errors,
                                    [id |-> id,
                                     msg |-> IF out = "error" THEN "error" ELSE "No data"])]

\* asyncio.Semaphore.acquire returns at once only while a permit is free
AcquirableAlways(value) == TRUE
Acquirable(value) == value > 0

\* process up to its await: the for loop calls url_builder on every item
\* (an exception there leaves process before any task runs), then gather
\* schedules all tasks.
ProcessStart(c, items) ==
    /\ b_pc[c] = "idle"
    /\ b_items' = [b_items EXCEPT ![c] = items]
    /\ IF \E i \in DOMAIN items : ~items[i].buildable
       THEN /\ b_pc' = [b_pc EXCEPT ![c] = "raised"]
            /\ UNCHANGED b_task
       ELSE /\ b_pc' = [b_pc EXCEPT ![c] = "gather"]
            /\ b_task' = [b_task EXCEPT ![c] = [i \in DOMAIN items |-> Waiting]]
    /\ UNCHANGED <<max_concurrent, sem_value, b_result>>

\* _fetch_with_semaphore: async with self._semaphore
FetchAcquire(c, i) ==
    /\ b_pc[c] = "gather" /\ i \in DOMAIN b_task[c]
    /\ b_task[c][i].st = "waiting"
    /\ Acquirable(sem_value)
    /\ sem_value' = sem_value - 1
    /\ b_task' = [b_task EXCEPT ![c][i].st = "sleeping"]
    /\ UNCHANGED <<max_concurrent, b_pc, b_items, b_result>>

\* _fetch_with_semaphore: asyncio.sleep(self.delay_between) returns and
\* make_request starts
FetchWake(c, i) ==
    /\ b_pc[c] = "gather" /\ i \in DOMAIN b_task[c]
    /\ b_task[c][i].st = "sleeping"
    /\ b_task' = [b_task EXCEPT ![c][i].st = "fetching"]
    /\ UNCHANGED <<max_concurrent, sem_value, b_pc, b_items, b_result>>

\* _fetch_with_semaphore: make_request ends (returns or raises) and the
\* async with block releases the permit
FetchComplete(c, i, o) ==
    /\ b_pc[c] = "gather" /\ i \in DOMAIN b_task[c]
    /\ b_task[c][i].st = "fetching"
    /\ b_task' = [b_task EXCEPT ![c][i] = [st |-> "done", out |-> o]]
    /\ sem_value' = sem_value + 1
    /\ UNCHANGED <<max_concurrent, b_pc, b_items, b_result>>

\* process after gather returned
ProcessFinish(c) ==
    /\ b_pc[c] = "gather"
    /\ \A i \in DOMAIN b_task[c] : b_task[c][i].st = "done"
    /\ LET r == Classify(b_items[c], b_task[c], Len(b_items[c]))
       IN b_result' = [b_result EXCEPT ![c] =
                          [results |-> r.success, count |-> Cardinality(r.success),
                           total |-> Len(b_items[c]), errors |-> r.errors]]
    /\ b_pc' = [b_pc EXCEPT ![c] = "done"]
    /\ UNCHANGED <<max_concurrent, sem_value, b_items, b_task>>

BatchInit ==
    /\ max_concurrent \in 1..MaxConcurrentArg
    /\ sem_value = max_concurrent
    /\ b_pc = [c \in Calls |-> "idle"]
    /\ b_items = [c \in Calls |-> <<>>]
    /\ b_task = [c \in Calls |-> <<>>]
    /\ b_result = [c \in Calls |-> NoBatchResult]

ResultIds(c) == {e.id : e \in b_result[c].results}
ErrorIds(c) == {b_result[c].errors[k].id : k \in DOMAIN b_result[c].errors}

\* C17: process accounts for every submitted item exactly once: count plus
\* the number of error entries equals total, total is the number of items,
\* and each item's identifier is in exactly one of results and errors.
C17_EveryItemAccountedOnce ==
    \A c \in Calls :
        b_pc[c] = "done" =>
            /\ b_result[c].count + Len(b_result[c].errors) = b_result[c].total
            /\ b_result[c].total = Len(b_items[c])
            /\ \A i \in DOMAIN b_items[c] :
                  (b_items[c][i].id \in ResultIds(c)) # (b_items[c][i].id \in ErrorIds(c))

\* C18: items are isolated: process never raises, and an item whose work
\* raised or returned an engine-level error has an error entry naming its
\* identifier.
C18_FailuresIsolatedAndNamed ==
    \A c \in Calls :
        /\ b_pc[c] # "raised"
        /\ b_pc[c] = "done" =>
              \A i \in DOMAIN b_items[c] :
                  b_task[c][i].out \in {"raise", "error"} =>
                      b_items[c][i].id \in ErrorIds(c)

\* The message process writes for an outcome that is not a success
MessageOf(out) ==
    IF out = "error" THEN "error" ELSE IF out = "empty" THEN "No data" ELSE "exception"

\* C31: a payload is in results iff its fetch returned a non-empty payload
\* that is not an error result; every other outcome, a raised exception
\* included, has an error entry "{identifier}: {message}"; and every
\* process call returns a result reporting count and total.
C31_ClassifiedByPayload ==
    \A c \in Calls :
        /\ b_pc[c] # "raised"
        /\ b_pc[c] = "done" =>
              /\ b_result[c].count = Cardinality(b_result[c].results)
              /\ b_result[c].total = Len(b_items[c])
              /\ \A i \in DOMAIN b_items[c] :
                    /\ ([id |-> b_items[c][i].id, data |-> <<"data", i>>]
                            \in b_result[c].results)
                        <=> (b_task[c][i].out = "data")
                    /\ b_task[c][i].out # "data" =>
                          \E k \in DOMAIN b_result[c].errors :
                              b_result[c].errors[k] =
                                  [id |-> b_items[c][i].id,
                                   msg |-> MessageOf(b_task[c][i].out)]

InFlight ==
    {<<c, i>> \in Calls \X (1..MaxItems) :
        i \in DOMAIN b_task[c] /\ b_task[c][i].st \in {"sleeping", "fetching"}}

\* C19: at most max_concurrent fetches hold a permit at any moment, over
\* all process calls of the processor; every permit taken is given back, on
\* success and on failure; and every process call terminates.
C19_BoundedAndTerminates ==
    /\ [](/\ Cardinality(InFlight) <= max_concurrent
          /\ sem_value + Cardinality(InFlight) = max_concurrent)
    /\ <>(\A c \in Calls : b_pc[c] \in {"done", "raised"})

C19_Witness ==
    /\ max_concurrent = 1
    /\ b_pc["c1"] = "done" /\ b_task["c1"][1].out = "raise"
    /\ b_pc["c2"] = "gather" /\ Len(b_task["c2"]) = 2
    /\ b_task["c2"][1].st = "fetching"
    /\ b_task["c2"][2].st = "waiting"

(***************************************************************************)
(* Threads on one TTLCache.  Every method runs its body under              *)
(* `with self._lock`; set and cleanup read the clock before they take the  *)
(* lock.  A call is three steps: invoke, enter (acquire the lock and read  *)
(* the shared fields) and commit (write them and release).                 *)
(***************************************************************************)
ThreadMaxSize == 1      \* maxsize of the cache the threads share
MaxThreadTime == 2      \* the clock of SpecThreads stops here

Threads == {"t1", "t2"}
ThreadKeys == {"a", "b"}
Call(op, key, ttl) == [op |-> op, key |-> key, ttl |-> ttl]
ThreadCalls ==
    {Call("get", k, NoTTL) : k \in ThreadKeys}
    \cup {Call("set", k, 1) : k \in ThreadKeys}
    \cup {Call("delete", k, NoTTL) : k \in ThreadKeys}
    \cup {Call("clear", None, NoTTL), Call("cleanup", None, NoTTL),
          Call("stats", None, NoTTL)}

Shared(c, h, m) == [cache |-> c, hits |-> h, misses |-> m]
NoCall == Call("none", None, NoTTL)
IdleThread == [pc |-> "idle", call |-> NoCall, t |-> 0, seen |-> Shared(<<>>, 0, 0)]

\* The body of a method under the lock: the shared fields it leaves, from
\* the fields it found, the clock value t read before the lock (set,
\* cleanup) and the clock value inside it (get).
Effect(call, s, t, clock) ==
    LET c == s.cache
        k == call.key
    IN IF call.op = "get"
       THEN IF k \notin KeysOf(c) THEN Shared(c, s.hits, s.misses + 1)
            ELSE IF IsExpired(clock, c[Find(c, k)].expiry)
            THEN Shared(Without(c, k), s.hits, s.misses + 1)
            ELSE Shared(Touch(c, k), s.hits + 1, s.misses)
       ELSE IF call.op = "set"
       THEN Shared(Evict(Append(Without(c, k),
                                [key |-> k, value |-> "v1",
                                 expiry |-> t + EffectiveTTL(call.ttl)]),
                         ThreadMaxSize),
                   s.hits, s.misses)
       ELSE IF call.op = "delete" THEN Shared(Without(c, k), s.hits, s.misses)
       ELSE IF call.op = "clear" THEN Shared(<<>>, 0, 0)
       ELSE IF call.op = "cleanup"
       THEN Shared(SelectSeq(c, LAMBDA e : ~IsExpired(t, e.expiry)), s.hits, s.misses)
       ELSE s

\* threading.Lock: acquire returns only while no thread holds the lock
LockFreeAlways(l) == TRUE
LockFree(l) == l = None

\* A thread calls a method; set and cleanup read time.time() first.
ThreadInvoke(t, call) ==
    /\ th[t].pc = "idle"
    /\ call.op = "get" => gets.started < MaxGets
    /\ th' = [th EXCEPT ![t] = [pc |-> "want", call |-> call,
                                t |-> IF call.op \in {"set", "cleanup"} THEN now ELSE 0,
                                seen |-> Shared(<<>>, 0, 0)]]
    /\ gets' = [gets EXCEPT !.started = IF call.op = "get" THEN @ + 1 ELSE @]
    /\ UNCHANGED <<lock, cache, hits, misses>>

\* with self._lock: the thread acquires the lock and reads the fields
ThreadEnter(t) ==
    /\ th[t].pc = "want"
    /\ LockFree(lock)
    /\ lock' = t
    /\ th' = [th EXCEPT ![t].pc = "in", ![t].seen = Shared(cache, hits, misses)]
    /\ UNCHANGED <<gets, cache, hits, misses>>

\* the thread writes the fields, leaves the with block and returns
ThreadCommit(t) ==
    /\ th[t].pc = "in"
    /\ LET e == Effect(th[t].call, th[t].seen, th[t].t, now)
       IN /\ cache' = e.cache
          /\ hits' = e.hits
          /\ misses' = e.misses
    /\ lock' = None
    /\ th' = [th EXCEPT ![t] = IdleThread]
    /\ gets' = [gets EXCEPT !.counted = IF th[t].call.op = "get" THEN @ + 1
                                        ELSE IF th[t].call.op = "clear" THEN 0 ELSE @]

ThreadTick ==
    /\ now < MaxThreadTime
    /\ now' = now + 1
    /\ UNCHANGED <<lock, th, gets, cache, hits, misses>>

ThreadInit ==
    /\ lock = None
    /\ th = [t \in Threads |-> IdleThread]
    /\ gets = [started |-> 0, counted |-> 0]

\* C20: the operations of concurrent threads exclude each other: at most
\* one thread is inside a method body; the cache never exceeds maxsize; no
\* update of the counters is lost (hits + misses is the number of get calls
\* completed since the last clear); and every completed operation changes
\* the shared fields as that operation alone does on the fields it finds
\* when it completes, so the state is that of a sequential order of the
\* completed operations.
C20_OperationsAtomic ==
    /\ [](/\ Cardinality({t \in Threads : th[t].pc = "in"}) <= 1
          /\ Len(cache) <= ThreadMaxSize
          /\ hits + misses = gets.counted)
    /\ [][\A t \in Threads :
            (th[t].pc = "in" /\ th'[t].pc = "idle") =>
                Shared(cache', hits', misses')
                    = Effect(th[t].call, Shared(cache, hits, misses), th[t].t, now)]_vars

C20_Witness ==
    /\ th["t1"].pc = "in" /\ th["t1"].call.op = "get"
    /\ th["t2"].pc = "want" /\ th["t2"].call.op = "set"
    /\ lock = "t1" /\ gets.counted = 1 /\ hits = 1
    /\ Len(cache) = ThreadMaxSize

(***************************************************************************)
(* The URL that make_request and make_post_request dispatch, and           *)
(* make_post_request (app/api_client.py).  A URL is a sequence of tokens:  *)
(* "p" is any text without a special character, "T" is the text           *)
(* api_token, "K" is EODHD_API_KEY, and "?", "&", "=" are themselves.      *)
(***************************************************************************)
MaxUrlLen == 4          \* a url argument has at most 1 + MaxUrlLen tokens

UrlTokens == {"p", "?", "&", "T", "="}
Urls ==
    {<<"p">> \o t : t \in UNION {[1..n -> UrlTokens] : n \in 0..MaxUrlLen}}

\* "api_token=" in url
ContainsTokenText(u) ==
    \E i \in 1..(Len(u) - 1) : u[i] = "T" /\ u[i + 1] = "="

\* separator = "&" if "?" in url else "?"
Separator(u) == IF \E i \in DOMAIN u : u[i] = "?" THEN "&" ELSE "?"

\* if "api_token=" not in url: url += f"{separator}api_token={EODHD_API_KEY}"
InjectToken(u) ==
    IF ~ContainsTokenText(u) THEN u \o <<Separator(u), "T", "=", "K">> ELSE u

\* One iteration of make_request's loop, with the URL it hands to client.get.
GetAttempt(o) ==
    /\ verb \in {"none", "GET"}
    /\ ReqAttempt(o)
    /\ verb' = "GET"
    /\ rl_calls' = rl_calls + 1
    /\ sent' = Append(sent, InjectToken(url))
    /\ UNCHANGED url

GetExhausted ==
    /\ verb = "GET"
    /\ ReqExhausted
    /\ UNCHANGED clientVars

\* What make_post_request's try block raises on an outcome: client.post's
\* exception, raise_for_status() on a non-2xx status, response.json() on a
\* body that is not JSON.
PostExceptionOf(o) ==
    IF o.kind = "exception" THEN o.class
    ELSE IF ~(200 <= o.status /\ o.status < 300) THEN "HTTPStatusError"
    ELSE IF o.body # "json" THEN "ValueError"
    ELSE None

\* except Exception as e
PostCaughtHTTPErrorOnly(exc) == "HTTPError" \in Bases(exc)
PostCaught(exc) == "Exception" \in Bases(exc)

\* make_post_request, as one step: it has no loop and no sleep of its own.
PostRequest(o) ==
    /\ verb = "none"
    /\ rq_pc = "loop"
    /\ verb' = "POST"
    /\ rl_calls' = rl_calls + 1
    /\ httpCalls' = httpCalls + 1
    /\ sent' = Append(sent, InjectToken(url))
    /\ outcomes' = Append(outcomes, o)
    /\ rq_pc' = "done"
    /\ LET exc == PostExceptionOf(o)
       IN result' = IF exc = None THEN [tag |-> "ok", form |-> "json"]
                    ELSE IF PostCaught(exc)
                    THEN [tag |-> "error", why |-> "post", err |-> ErrorOf(o, 0)]
                    ELSE [tag |-> "raised", err |-> ErrorOf(o, 0)]
    /\ UNCHANGED <<retries, attempt, last_error, sleeps, url>>

ClientInit ==
    /\ url \in Urls
    /\ sent = <<>>
    /\ verb = "none"
    /\ rl_calls = 0

\* The api_token query parameter: after the first "?", the parts between
\* "&" are the parameters, and the name of a parameter ends at its "=".
HasQuery(u) == \E i \in DOMAIN u : u[i] = "?"
QueryStart(u) == CHOOSE i \in DOMAIN u : u[i] = "?" /\ \A j \in 1..(i - 1) : u[j] # "?"
TokenParams(u) ==
    IF ~HasQuery(u) THEN {}
    ELSE {i \in (QueryStart(u) + 1)..(Len(u) - 1) :
             /\ u[i] = "T" /\ u[i + 1] = "="
             /\ (i - 1 = QueryStart(u) \/ u[i - 1] = "&")}
HasTokenParam(u) == TokenParams(u) # {}

\* C26: every URL dispatched carries an api_token query parameter; a url
\* argument without one is dispatched with exactly one appended, after "?"
\* when it has no query string and after "&" otherwise; a url argument with
\* one is dispatched unchanged; injecting twice is injecting once.
C26_EveryDispatchedUrlCarriesToken ==
    \A i \in DOMAIN sent :
        /\ HasTokenParam(sent[i])
        /\ sent[i] = IF HasTokenParam(url) THEN url
                     ELSE url \o <<IF HasQuery(url) THEN "&" ELSE "?", "T", "=", "K">>
        /\ Cardinality(TokenParams(sent[i])) = Cardinality(TokenParams(url)) +
              (IF HasTokenParam(url) THEN 0 ELSE 1)
        /\ InjectToken(sent[i]) = sent[i]

\* C27: make_post_request calls the rate limiter once, dispatches at most
\* one POST whatever the upstream answers, sleeps nothing, and returns a
\* result, an error result on every failure, instead of raising.
C27_PostSingleAttempt ==
    verb = "POST" =>
        /\ rq_pc = "done"
        /\ rl_calls = 1 /\ httpCalls <= 1 /\ Len(sent) <= 1
        /\ sleeps = <<>>
        /\ result.tag \in {"ok", "error"}
        /\ result.tag = "ok" <=>
              /\ outcomes[1].kind = "response"
              /\ outcomes[1].status = 200 /\ outcomes[1].body = "json"

C27_Witness ==
    /\ verb = "POST" /\ Is429(outcomes[1])
    /\ result.tag = "error" /\ httpCalls = 1 /\ sleeps = <<>>

(***************************************************************************)
(* cached (app/cache.py): sync_wrapper and async_wrapper have the same      *)
(* body.  A key of CacheKeys is the cache_key of one argument list; the    *)
(* wrapped function runs between the wrapper's get and its set.  The       *)
(* wrappers share the module's TTLCache; one tick is 150 s.                *)
(***************************************************************************)
MaxCalls == 4           \* wrapper calls of one behaviour of SpecDeco

Results == Values \cup {None}

\* The history follows the calls of one argument list; the calls of the
\* other argument lists share the cache with them.
Tracked == "a"
NoPrev == [val |-> None, exp |-> -1]
PrevOf(k) == IF k = Tracked THEN d_prev ELSE NoPrev
NoWrapperCall ==
    [op |-> "init", key |-> None, returned |-> None, invoked |-> FALSE,
     within |-> FALSE, prev |-> None, stored |-> FALSE]

\* cache_key = ...; result = _cache.get(cache_key); if result is not None:
\* return result; otherwise the wrapped function is called.
WrapperEnter(k) ==
    /\ d_pc = "idle"
    /\ CacheGet(k)
    /\ d_key' = k
    /\ IF lastOp'.out # None
       THEN /\ d_pc' = "idle"
            /\ d_last' = [op |-> "call", key |-> k, returned |-> lastOp'.out,
                          invoked |-> FALSE, within |-> now <= PrevOf(k).exp,
                          prev |-> PrevOf(k).val, stored |-> k \in KeysOf(cache)]
       ELSE /\ d_pc' = "calling"
            /\ d_last' = [op |-> "enter", key |-> k, returned |-> None,
                          invoked |-> TRUE, within |-> now <= PrevOf(k).exp,
                          prev |-> PrevOf(k).val, stored |-> k \in KeysOf(cache)]
    /\ UNCHANGED <<d_fn, d_prev>>

\* result = func(*args, **kwargs); if result is not None:
\* _cache.set(cache_key, result, ttl); return result
WrapperReturnNotStoring(r) ==
    /\ d_pc = "calling"
    /\ d_pc' = "idle"
    /\ d_last' = [d_last EXCEPT !.op = "call", !.returned = r]
    /\ d_prev' = IF r # None /\ d_key = Tracked
                 THEN [val |-> r, exp |-> now + EffectiveTTL(d_fn.ttl)]
                 ELSE d_prev
    /\ UNCHANGED <<cache, hits, misses, lastOp, d_fn, d_key>>
WrapperReturn(r) ==
    /\ d_pc = "calling"
    /\ IF r # None THEN CacheSet(d_key, r, d_fn.ttl)
       ELSE UNCHANGED <<cache, hits, misses, lastOp>>
    /\ d_pc' = "idle"
    /\ d_last' = [d_last EXCEPT !.op = "call", !.returned = r]
    /\ d_prev' = IF r # None /\ d_key = Tracked
                 THEN [val |-> r, exp |-> now + EffectiveTTL(d_fn.ttl)]
                 ELSE d_prev
    /\ UNCHANGED <<d_fn, d_key>>

\* clear_cache()
ClearCache ==
    /\ d_pc = "idle"
    /\ CacheClear
    /\ d_last' = [NoWrapperCall EXCEPT !.op = "clear"]
    /\ UNCHANGED <<d_fn, d_pc, d_key, d_prev>>

DecoInit ==
    /\ d_pc = "idle"
    /\ d_key = None
    /\ d_last = NoWrapperCall
    /\ d_prev = NoPrev

\* The case of the claim: the call that has just returned was made after a
\* call with the same arguments returned a result that is not None.
AfterEarlierResult == d_pc = "idle" /\ d_last.op = "call" /\ d_last.prev # None
WithinTTL == d_last.within
ShortCircuited == d_last.returned = d_last.prev /\ ~d_last.invoked
Repopulated ==
    /\ d_last.invoked
    /\ d_last.returned # None =>
          /\ d_last.key \in KeysOf(cache)
          /\ cache[Find(cache, d_last.key)].value = d_last.returned
          /\ d_prev.val = d_last.returned

\* C28 as stated: after a call that returned a result that is not None,
\* every later sequential call with the same arguments within the TTL
\* returns that result without invoking the function, and the first call
\* after expiry invokes it and repopulates the cache; sync and async.
C28_ShortCircuitWithinTTL ==
    AfterEarlierResult =>
        IF WithinTTL THEN ShortCircuited ELSE Repopulated

\* C28, amended: the same, for a call within the TTL provided the entry of
\* the earlier result is still stored, that is, it has not been evicted by
\* maxsize or removed by clear_cache since.
C28_ShortCircuitWhileStored ==
    AfterEarlierResult =>
        /\ (WithinTTL /\ d_last.stored) => ShortCircuited
        /\ ~WithinTTL => Repopulated
        /\ (WithinTTL /\ ~d_last.stored) => d_last.invoked

C28_Witness ==
    /\ AfterEarlierResult /\ d_fn.async /\ d_fn.ttl = 1
    /\ ~WithinTTL /\ Repopulated /\ d_last.returned = "v2"
    /\ d_last.prev = "v1" /\ hits >= 1

(***************************************************************************)
(* The cache_key of a decorated call.  app/cache.py: key_prefix + the MD5  *)
(* hex digest of json.dumps({"args": (func.__name__, *args), "kwargs":     *)
(* kwargs}, sort_keys=True).  app/redis_cache.py, without key_builder:     *)
(* key_prefix, ":", and str of the args and "k=v" of the sorted kwargs     *)
(* joined by ":".  A key is the sequence of the pieces of its text; a      *)
(* digest is the text it was computed from between "md5(" and ")".         *)
(***************************************************************************)
MaxArgs == 2            \* positional arguments of a call of SpecKeys

FunctionNames == {"f", "g"}
KeyPrefixes == {"", "quote"}
ArgValues == {"x", "y"}
KwargOrder == <<"k1", "k2">>      \* the keyword names, in sorted order
KwargNames == {KwargOrder[i] : i \in DOMAIN KwargOrder}

\* kwargs as the caller wrote them: pairs <<name, value>>, names distinct
KwargLists ==
    {kw \in UNION {[1..n -> KwargNames \X ArgValues] : n \in 0..Len(KwargOrder)} :
        \A i, j \in DOMAIN kw : i # j => kw[i][1] # kw[j][1]}
KeyCalls ==
    [prefix : KeyPrefixes, fn : FunctionNames,
     args : UNION {[1..n -> ArgValues] : n \in 0..MaxArgs},
     kwargs : KwargLists]

Reversed(q) == [i \in DOMAIN q |-> q[Len(q) + 1 - i]]

\* sort_keys=True / sorted(kwargs.items())
SortedKwargsAsWritten(kw) == kw
SortedKwargs(kw) ==
    LET names == SelectSeq(KwargOrder, LAMBDA k : \E i \in DOMAIN kw : kw[i][1] = k)
    IN [n \in DOMAIN names |->
          kw[CHOOSE i \in DOMAIN kw : kw[i][1] = names[n]]]

RECURSIVE Flatten(_)
Flatten(pieces) ==
    IF pieces = <<>> THEN <<>> ELSE Head(pieces) \o Flatten(Tail(pieces))

\* json.dumps({"args": args, "kwargs": kwargs}, sort_keys=True, default=str)
JsonDumps(args, kwargs) ==
    <<"{args:[">> \o Flatten([i \in DOMAIN args |-> <<args[i], ",">>])
    \o <<"],kwargs:{">>
    \o Flatten([i \in DOMAIN kwargs |->
                    <<SortedKwargs(kwargs)[i][1], ":", SortedKwargs(kwargs)[i][2], ",">>])
    \o <<"}}">>

\* TTLCache._make_key(*args, **kwargs)
TTLCacheMakeKey(args, kwargs) == <<"md5(">> \o JsonDumps(args, kwargs) \o <<")">>

\* cache.py: cache_key = key_prefix + _cache._make_key(func.__name__, *args, **kwargs)
LocalCacheKey(call) ==
    <<call.prefix>> \o TTLCacheMakeKey(<<call.fn>> \o call.args, call.kwargs)

\* redis_cache.py: key_parts = [str(a) for a in args]
\*   + [f"{k}={v}" for k, v in sorted(kwargs.items())]
KeyParts(call) ==
    [i \in DOMAIN call.args |-> <<call.args[i]>>]
    \o [i \in DOMAIN call.kwargs |->
           <<SortedKwargs(call.kwargs)[i][1], "=", SortedKwargs(call.kwargs)[i][2]>>]

\* ':'.join(key_parts)
RECURSIVE Join(_)
Join(parts) ==
    IF parts = <<>> THEN <<>>
    ELSE IF Len(parts) = 1 THEN Head(parts)
    ELSE Head(parts) \o <<":">> \o Join(Tail(parts))

\* redis_cache.py: cache_key = f"{key_prefix}:{':'.join(key_parts)}"
RedisCacheKey(call) == <<call.prefix, ":">> \o Join(KeyParts(call))

Decorators == {"cache", "redis_cache"}
CacheKeyOf(d, call) == IF d = "cache" THEN LocalCacheKey(call) ELSE RedisCacheKey(call)

NoKeyCall == [prefix |-> "", fn |-> "f", args |-> <<>>, kwargs |-> <<>>]
NoKey == [built |-> FALSE, written |-> <<>>, reordered |-> <<>>]
NoKeys == [d \in Decorators |-> NoKey]

\* The wrapper of decorator d builds the key of the call kc, and the key of
\* the same call with its keyword arguments written in the opposite order.
BuildKey(d) ==
    /\ ~kk[d].built
    /\ kk' = [kk EXCEPT ![d] =
                 [built |-> TRUE,
                  written |-> CacheKeyOf(d, kc),
                  reordered |-> CacheKeyOf(d, [kc EXCEPT !.kwargs = Reversed(@)])]]
    /\ UNCHANGED kc

KeyInit ==
    /\ kc \in KeyCalls
    /\ kk = NoKeys

\* C30 as stated: the key of a call is the same whatever the order in which
\* its keyword arguments are written, and the same under the in-process
\* decorator and the distributed decorator.
C30_SameKeyEverywhere ==
    /\ \A d \in Decorators : kk[d].built => kk[d].written = kk[d].reordered
    /\ (kk["cache"].built /\ kk["redis_cache"].built) =>
          kk["cache"].written = kk["redis_cache"].written

\* C30, amended: under each decorator the key of a call is a function of
\* the function name or key prefix, the positional arguments and the keyword
\* arguments and does not depend on the order in which the keyword arguments
\* are written; the two decorators build different keys for the same call.
C30_SameKeyPerDecorator ==
    /\ \A d \in Decorators :
          kk[d].built =>
              /\ kk[d].written = kk[d].reordered
              /\ kk[d].written = CacheKeyOf(d, kc)
    /\ (kk["cache"].built /\ kk["redis_cache"].built) =>
          kk["cache"].written # kk["redis_cache"].written

C30_Witness ==
    /\ kk["cache"].built /\ kk["redis_cache"].built
    /\ kc.kwargs = <<<<"k2", "x">>, <<"k1", "y">>>> /\ Len(kc.args) = 1
    /\ kk["redis_cache"].written =
          <<kc.prefix, ":", kc.args[1], ":", "k1", "=", "y", ":", "k2", "=", "x">>

(***************************************************************************)
(* A TTLCache and a disconnected RedisCache given the same set, get and    *)
(* delete calls at the same clock readings.  Both are built with           *)
(* default_ttl = 300 (two ticks) and the TTLCache has room for every key.  *)
(***************************************************************************)
MaxPairTime == 2        \* the clock of SpecPair stops here

\* The keys given to the TTLCache, and the key the RedisCache is given
\* where the TTLCache is given k
PairKeys == {"a", "b"}
PairKey(k) == IF k = "a" THEN <<"p:", "x">> ELSE <<"p:", "long">>

NoSet == [key |-> None, val |-> None, ttl |-> NoTTL, at |-> 0]

PairSet(k, v, ttl) ==
    /\ CacheSet(k, v, ttl)
    /\ RedisSet(PairKey(k), v, ttl, 0)
    /\ p_set' = [key |-> k, val |-> v, ttl |-> ttl, at |-> now]

PairGet(k) ==
    /\ CacheGet(k)
    /\ RedisGet(PairKey(k), 0)
    /\ UNCHANGED p_set

PairDelete(k) ==
    /\ CacheDelete(k)
    /\ RedisDelete(PairKey(k), 0)
    /\ p_set' = IF p_set.key = k THEN NoSet ELSE p_set

PairTick ==
    /\ now < MaxPairTime
    /\ now' = now + 1
    /\ lastOp' = [op |-> "tick", key |-> None, out |-> None, why |-> None, n |-> 0]
    /\ rLast' = Returned("tick", <<>>, None, 0)
    /\ UNCHANGED <<cache, hits, misses, r_connected, r_client, remote, fallback,
                   pending, p_set>>

PairInit ==
    /\ CacheInit
    /\ RedisInit
    /\ p_set = NoSet

BothGot == lastOp.op = "get" /\ rLast.op = "get" /\ rLast.key = PairKey(lastOp.key)

\* C34: given the same set, get and delete calls at the same clock
\* readings, the disconnected RedisCache returns for every get what the
\* TTLCache returns, a get issued exactly at an entry's expiry included.
C34_FallbackMatchesTTLCache ==
    BothGot => rLast.out = lastOp.out

\* C39: an entry stored with an explicit ttl >= 0 lasts ttl ticks in both
\* caches: a get of its key returns the value before the ttl has passed and
\* is absent after it has passed, so a set with ttl = 0 leaves nothing that
\* a get returns once time has advanced.
C39_ExplicitTTLHonoured ==
    (BothGot /\ lastOp.key = p_set.key /\ p_set.ttl # NoTTL) =>
        /\ now < p_set.at + p_set.ttl =>
              lastOp.out = p_set.val /\ rLast.out = p_set.val
        /\ now > p_set.at + p_set.ttl =>
              lastOp.out = None /\ rLast.out = None

(***************************************************************************)
(* Specifications                                                          *)
(***************************************************************************)
\* The RedisCache of the specifications that do not use it.
RedisIdle == RedisInit

\* The later components of the specifications that do not use them.
ScopeIdle == cs_auth = [authenticated |-> FALSE, scopes |-> {}] /\ cs_last = NoCheck
BatchIdle == BatchInit /\ max_concurrent = 1
ClientIdle == url = <<>> /\ sent = <<>> /\ verb = "none" /\ rl_calls = 0
DecoIdle == DecoInit /\ d_fn = [async |-> FALSE, ttl |-> NoTTL]
KeyIdle == kc = NoKeyCall /\ kk = NoKeys
PairIdle == p_set = NoSet
MoreIdle == ClientIdle /\ DecoIdle /\ KeyIdle /\ PairIdle
RestIdle == ScopeIdle /\ BatchIdle /\ ThreadInit /\ MoreIdle

\* The validator and middleware of the specifications that do not use them.
AuthIdle ==
    /\ AuthInit
    /\ introspection_url = FALSE /\ env_key = FALSE
    /\ allow_legacy_api_key = TRUE /\ allow_env_api_key = TRUE

InitReq ==
    /\ ReqInit
    /\ retries \in 0..MaxRetriesArg
    /\ now = 0
    /\ RLInit
    /\ CacheInit
    /\ RedisIdle
    /\ AuthIdle
    /\ RestIdle

DoAttempt ==
    (\E o \in Outcomes : ReqAttempt(o)) /\ UNCHANGED <<now, rlVars, cacheVars, redisVars, authVars, restVars>>
DoExhausted == ReqExhausted /\ UNCHANGED <<now, rlVars, cacheVars, redisVars, authVars, restVars>>

NextReq == DoAttempt \/ DoExhausted

SpecReq == InitReq /\ [][NextReq]_vars

\* Every await of the loop returns: the HTTP call ends by its timeout at
\* the latest and every sleep is finite.
SpecReqFair == InitReq /\ [][NextReq]_vars /\ WF_vars(NextReq)

\* time.time() is far past _last_request_time = 0 when the process starts.
InitRL ==
    /\ RLInit
    /\ now = RATE_LIMIT_DELAY
    /\ ReqInit
    /\ retries = MAX_RETRIES
    /\ CacheInit
    /\ RedisIdle
    /\ AuthIdle
    /\ RestIdle

DoRateLimitEnter ==
    (\E t \in Tasks : RateLimitEnter(t)) /\ UNCHANGED <<reqVars, cacheVars, redisVars, authVars, restVars>>
DoRateLimitWake ==
    (\E t \in Tasks : RateLimitWake(t)) /\ UNCHANGED <<reqVars, cacheVars, redisVars, authVars, restVars>>
DoTickRL == Tick /\ UNCHANGED <<reqVars, rlVars, cacheVars, redisVars, authVars, restVars>>

NextRL == DoRateLimitEnter \/ DoRateLimitWake \/ DoTickRL

SpecRL == InitRL /\ [][NextRL]_vars

InitCache ==
    /\ CacheInit
    /\ now = 0
    /\ ReqInit
    /\ retries = MAX_RETRIES
    /\ RLInit
    /\ RedisIdle
    /\ AuthIdle
    /\ RestIdle

otherThanCache == <<reqVars, rlVars, redisVars, authVars, restVars>>

DoGet ==
    /\ hits + misses < MaxGets
    /\ \E k \in CacheKeys : CacheGet(k)
    /\ UNCHANGED <<now, uses, otherThanCache>>
DoSet ==
    (\E k \in CacheKeys, v \in Values, ttl \in TTLArgs : CacheSet(k, v, ttl))
    /\ UNCHANGED <<now, uses, otherThanCache>>
DoDelete == (\E k \in CacheKeys : CacheDelete(k)) /\ UNCHANGED <<now, uses, otherThanCache>>
DoClear == CacheClear /\ UNCHANGED <<now, uses, otherThanCache>>
DoCleanup == CacheCleanup /\ UNCHANGED <<now, uses, otherThanCache>>
DoTickCache == CacheTick /\ UNCHANGED <<cache, hits, misses, uses, otherThanCache>>

NextCache == DoGet \/ DoSet \/ DoDelete \/ DoClear \/ DoCleanup \/ DoTickCache

SpecCache == InitCache /\ [][NextCache]_vars

\* A history of set and get calls during which no entry expires: the clock
\* stands still and every ttl is at least one tick.
LRUSet ==
    /\ Len(uses) < MaxUses
    /\ \E k \in CacheKeys, v \in Values, ttl \in TTLArgs :
          CacheSet(k, v, ttl) /\ uses' = Append(uses, k)
    /\ UNCHANGED <<now, otherThanCache>>
LRUGet ==
    /\ Len(uses) + misses < MaxUses
    /\ \E k \in CacheKeys :
          /\ CacheGet(k)
          /\ uses' = IF lastOp'.why = "hit" THEN Append(uses, k) ELSE uses
    /\ UNCHANGED <<now, otherThanCache>>

NextLRU == LRUSet \/ LRUGet

SpecLRU == InitCache /\ [][NextLRU]_vars

InitRedis ==
    /\ RedisInit
    /\ now = 0
    /\ ReqInit
    /\ retries = MAX_RETRIES
    /\ RLInit
    /\ CacheInit
    /\ AuthIdle
    /\ RestIdle

otherThanRedis == <<reqVars, rlVars, cacheVars, authVars, restVars>>

DoRedisConnect ==
    (\E f \in 0..2 : RedisConnect(f)) /\ UNCHANGED <<now, otherThanRedis>>
DoRedisDisconnect ==
    (\E f \in 0..1 : RedisDisconnect(f)) /\ UNCHANGED <<now, otherThanRedis>>
DoRedisGet ==
    (\E k \in RedisKeys, f \in 0..1 : RedisGet(k, f))
    /\ UNCHANGED <<now, otherThanRedis>>
DoRedisSet ==
    (\E k \in RedisKeys, v \in RedisValues \cup {Unserializable},
        ttl \in RedisTTLArgs, f \in 0..1 : RedisSet(k, v, ttl, f))
    /\ UNCHANGED <<now, otherThanRedis>>
DoRedisDelete ==
    (\E k \in RedisKeys, f \in 0..1 : RedisDelete(k, f))
    /\ UNCHANGED <<now, otherThanRedis>>
DoRedisClearPrefix ==
    (\E p \in Prefixes, f \in 0..2 : RedisClearPrefix(p, f))
    /\ UNCHANGED <<now, otherThanRedis>>
DoRedisExists ==
    (\E k \in RedisKeys, f \in 0..1 : RedisExists(k, f))
    /\ UNCHANGED <<now, otherThanRedis>>
DoRedisGetStats ==
    (\E f \in 0..2 : RedisGetStats(f)) /\ UNCHANGED <<now, otherThanRedis>>
DoRedisTick == RedisTick /\ UNCHANGED otherThanRedis

NextRedis ==
    \/ DoRedisConnect \/ DoRedisDisconnect \/ DoRedisGet \/ DoRedisSet
    \/ DoRedisDelete \/ DoRedisClearPrefix \/ DoRedisExists
    \/ DoRedisGetStats \/ DoRedisTick

SpecRedis == InitRedis /\ [][NextRedis]_vars

InitAuth ==
    /\ AuthInit
    /\ RestIdle
    /\ now = 0
    /\ ReqInit
    /\ retries = MAX_RETRIES
    /\ RLInit
    /\ CacheInit
    /\ RedisIdle

otherThanAuth == <<reqVars, rlVars, cacheVars, redisVars, restVars>>

\* An endpoint answers only the calls that reach it.  The authorization
\* server issued "t1" and never issued "t2": it reports "t2" inactive when
\* it answers at all.
Unissued == {"t2"}
AnswersFor(token) ==
    IF token \in Unissued
    THEN {a \in IntrospectionAnswers : ~(a.kind = "response" /\ a.status = 200 /\ a.active)}
    ELSE IntrospectionAnswers
Unasked == Answer("unasked", 0, "object", FALSE, "", NoExp)
IntrospectionAsked(header, transport) ==
    LET bearer == ExtractBearerToken(header)
    IN IF transport # "stdio" /\ bearer # None /\ introspection_url /\ ~CacheFresh(bearer)
       THEN AnswersFor(bearer) ELSE {Unasked}
LegacyAsked(header, param, transport) ==
    IF transport # "stdio" /\ ExtractBearerToken(header) = None
       /\ allow_legacy_api_key /\ Truthy(param)
    THEN LegacyAnswers ELSE {"unasked"}

DoAuthenticate ==
    /\ \E header \in AuthHeaders, param \in ApiTokenParams, transport \in Transports :
          \E ians \in IntrospectionAsked(header, transport),
             lans \in LegacyAsked(header, param, transport) :
             AuthenticateCall(header, param, transport, ians, lans)
    /\ UNCHANGED <<now, otherThanAuth>>
DoTickAuth == AuthTick /\ UNCHANGED otherThanAuth

NextAuth == DoAuthenticate \/ DoTickAuth

SpecAuth == InitAuth /\ [][NextAuth]_vars

InitScope ==
    /\ ScopeInit
    /\ BatchIdle
    /\ ThreadInit
    /\ MoreIdle
    /\ now = 0
    /\ ReqInit
    /\ retries = MAX_RETRIES
    /\ RLInit
    /\ CacheInit
    /\ RedisIdle
    /\ AuthIdle

\* check_scope, has_scope and has_any_scope read their arguments only: a
\* behaviour of SpecScope is one call on one drawn AuthResult.
DoCheckScope ==
    /\ cs_last = NoCheck
    /\ \E tool \in ToolNames : CheckScopeCall(tool)
    /\ UNCHANGED <<now, reqVars, rlVars, cacheVars, redisVars, authVars, batchVars,
                   threadVars, moreVars>>

DoHasScope ==
    /\ cs_last = NoCheck
    /\ \E scope \in RequestedScopes : HasScopeCall(scope)
    /\ UNCHANGED <<now, reqVars, rlVars, cacheVars, redisVars, authVars, batchVars,
                   threadVars, moreVars>>
DoHasAnyScope ==
    /\ cs_last = NoCheck
    /\ \E required \in RequestedLists : HasAnyScopeCall(required)
    /\ UNCHANGED <<now, reqVars, rlVars, cacheVars, redisVars, authVars, batchVars,
                   threadVars, moreVars>>

NextScope == DoCheckScope \/ DoHasScope \/ DoHasAnyScope

SpecScope == InitScope /\ [][NextScope]_vars

InitBatch ==
    /\ BatchInit
    /\ ScopeIdle
    /\ ThreadInit
    /\ MoreIdle
    /\ now = 0
    /\ ReqInit
    /\ retries = MAX_RETRIES
    /\ RLInit
    /\ CacheInit
    /\ RedisIdle
    /\ AuthIdle

otherThanBatch ==
    <<now, reqVars, rlVars, cacheVars, redisVars, authVars, scopeVars, threadVars,
      moreVars>>

\* SpecBatch: one process call over every list of at most MaxItems items
DoProcessStart ==
    (\E items \in ItemLists : ProcessStart("c1", items)) /\ UNCHANGED otherThanBatch
DoFetchAcquire ==
    (\E c \in Calls, i \in 1..MaxItems : FetchAcquire(c, i)) /\ UNCHANGED otherThanBatch
DoFetchWake ==
    (\E c \in Calls, i \in 1..MaxItems : FetchWake(c, i)) /\ UNCHANGED otherThanBatch
DoFetchComplete ==
    /\ \E c \in Calls, i \in 1..MaxItems, o \in FetchOutcomes : FetchComplete(c, i, o)
    /\ UNCHANGED otherThanBatch
DoProcessFinish ==
    (\E c \in Calls : ProcessFinish(c)) /\ UNCHANGED otherThanBatch

NextBatch ==
    \/ DoProcessStart \/ DoFetchAcquire \/ DoFetchWake \/ DoFetchComplete
    \/ DoProcessFinish

SpecBatch == InitBatch /\ [][NextBatch]_vars

\* SpecSem: two process calls running concurrently on one processor.  The
\* event loop runs every task that is ready, hence the fairness.
SemBatches == {<<Item("A", TRUE), Item("B", TRUE)>>, <<Item("A", TRUE)>>}
SemOutcomes == {"data", "raise"}

DoSemProcessStart ==
    /\ \E c \in Calls, items \in SemBatches : ProcessStart(c, items)
    /\ UNCHANGED otherThanBatch
DoSemFetchComplete ==
    /\ \E c \in Calls, i \in 1..MaxItems, o \in SemOutcomes : FetchComplete(c, i, o)
    /\ UNCHANGED otherThanBatch

NextSem ==
    \/ DoSemProcessStart \/ DoFetchAcquire \/ DoFetchWake \/ DoSemFetchComplete
    \/ DoProcessFinish

SpecSem == InitBatch /\ [][NextSem]_vars /\ WF_vars(NextSem)

\* SpecThreads: two threads calling the methods of one TTLCache
InitThreads ==
    /\ ThreadInit
    /\ CacheInit
    /\ now = 0
    /\ ReqInit
    /\ retries = MAX_RETRIES
    /\ RLInit
    /\ RedisIdle
    /\ AuthIdle
    /\ ScopeIdle
    /\ BatchIdle
    /\ MoreIdle

otherThanThreads ==
    <<reqVars, rlVars, redisVars, authVars, scopeVars, batchVars, lastOp, uses,
      moreVars>>

DoThreadInvoke ==
    /\ \E t \in Threads, call \in ThreadCalls : ThreadInvoke(t, call)
    /\ UNCHANGED <<now, otherThanThreads>>
DoThreadEnter ==
    (\E t \in Threads : ThreadEnter(t)) /\ UNCHANGED <<now, otherThanThreads>>
DoThreadCommit ==
    (\E t \in Threads : ThreadCommit(t)) /\ UNCHANGED <<now, otherThanThreads>>
DoThreadTick == ThreadTick /\ UNCHANGED otherThanThreads

NextThreads == DoThreadInvoke \/ DoThreadEnter \/ DoThreadCommit \/ DoThreadTick

SpecThreads == InitThreads /\ [][NextThreads]_vars


\* SpecClient: one call of make_request or of make_post_request on a url
SampleOutcomes ==
    {o \in Outcomes :
        \/ o.kind = "exception" /\ o.class = "TimeoutException"
        \/ o.kind = "response" /\ o.status = 500
        \/ o.kind = "response" /\ o.status = 200 /\ o.ctype = "application/json"
                                /\ o.body = "json"}

InitClient ==
    /\ ClientInit
    /\ ReqInit
    /\ retries \in {0, 1}
    /\ now = 0
    /\ RLInit
    /\ CacheInit
    /\ RedisIdle
    /\ AuthIdle
    /\ ScopeIdle
    /\ BatchIdle
    /\ ThreadInit
    /\ DecoIdle
    /\ KeyIdle
    /\ PairIdle

otherThanClient ==
    <<now, rlVars, cacheVars, redisVars, authVars, scopeVars, batchVars, threadVars,
      decoVars, keyVars, pairVars>>

DoGetAttempt == (\E o \in SampleOutcomes : GetAttempt(o)) /\ UNCHANGED otherThanClient
DoGetExhausted == GetExhausted /\ UNCHANGED otherThanClient
DoPostRequest == (\E o \in Outcomes : PostRequest(o)) /\ UNCHANGED otherThanClient

NextClient == DoGetAttempt \/ DoGetExhausted \/ DoPostRequest

SpecClient == InitClient /\ [][NextClient]_vars


\* SpecDeco: sequential calls of one wrapped function, clear_cache and time
InitDeco ==
    /\ DecoInit
    /\ d_fn \in [async : BOOLEAN, ttl : {NoTTL, 1}]
    /\ CacheInit
    /\ now = 0
    /\ ReqInit
    /\ retries = MAX_RETRIES
    /\ RLInit
    /\ RedisIdle
    /\ AuthIdle
    /\ ScopeIdle
    /\ BatchIdle
    /\ ThreadInit
    /\ ClientIdle
    /\ KeyIdle
    /\ PairIdle

otherThanDeco ==
    <<reqVars, rlVars, redisVars, authVars, scopeVars, batchVars, threadVars,
      clientVars, keyVars, pairVars, uses>>

DoWrapperEnter ==
    /\ hits + misses < MaxCalls
    /\ \E k \in CacheKeys : WrapperEnter(k)
    /\ UNCHANGED <<now, otherThanDeco>>
DoWrapperReturn ==
    /\ \E r \in Results : WrapperReturn(r)
    /\ UNCHANGED <<now, otherThanDeco>>
DoClearCache == ClearCache /\ UNCHANGED <<now, otherThanDeco>>
DoTickDeco ==
    /\ now < MaxCacheTime
    /\ now' = now + 1
    /\ UNCHANGED <<cache, hits, misses, lastOp, decoVars, otherThanDeco>>

NextDeco == DoWrapperEnter \/ DoWrapperReturn \/ DoClearCache \/ DoTickDeco

SpecDeco == InitDeco /\ [][NextDeco]_vars


\* SpecKeys: the two decorators build the cache key of one call
InitKeys ==
    /\ KeyInit
    /\ DecoIdle
    /\ ClientIdle
    /\ CacheInit
    /\ now = 0
    /\ ReqInit
    /\ retries = MAX_RETRIES
    /\ RLInit
    /\ RedisIdle
    /\ AuthIdle
    /\ ScopeIdle
    /\ BatchIdle
    /\ ThreadInit
    /\ PairIdle

DoBuildKey ==
    /\ \E d \in Decorators : BuildKey(d)
    /\ UNCHANGED <<now, reqVars, rlVars, cacheVars, redisVars, authVars, scopeVars,
                   batchVars, threadVars, clientVars, decoVars, pairVars>>

NextKeys == DoBuildKey

SpecKeys == InitKeys /\ [][NextKeys]_vars


\* SpecPair: the same calls on a TTLCache and on a RedisCache that was never
\* connected
InitPair ==
    /\ PairInit
    /\ now = 0
    /\ ReqInit
    /\ retries = MAX_RETRIES
    /\ RLInit
    /\ AuthIdle
    /\ ScopeIdle
    /\ BatchIdle
    /\ ThreadInit
    /\ ClientIdle
    /\ DecoIdle
    /\ KeyIdle

otherThanPair ==
    <<reqVars, rlVars, authVars, scopeVars, batchVars, threadVars, clientVars,
      decoVars, keyVars, uses>>

DoPairSet ==
    /\ \E k \in PairKeys, v \in Values, ttl \in TTLArgs : PairSet(k, v, ttl)
    /\ UNCHANGED <<now, otherThanPair>>
DoPairGet ==
    /\ hits + misses < MaxGets
    /\ \E k \in PairKeys : PairGet(k)
    /\ UNCHANGED <<now, otherThanPair>>
DoPairDelete ==
    /\ \E k \in PairKeys : PairDelete(k)
    /\ UNCHANGED <<now, otherThanPair>>
DoPairTick == PairTick /\ UNCHANGED otherThanPair

NextPair == DoPairSet \/ DoPairGet \/ DoPairDelete \/ DoPairTick

SpecPair == InitPair /\ [][NextPair]_vars

=============================================================================
